---- MODULE Spec2Model ----
(***************************************************************************)
(* Domain-service layer of the hexagonal e-commerce boilerplate: the       *)
(* User, Product and Order aggregates, their repositories (PostgreSQL for  *)
(* users and orders, MongoDB for products), the three domain services and  *)
(* the events they publish.  Every request is one service call executed by *)
(* one goroutine; the steps of concurrent requests interleave at the       *)
(* repository calls, which are the only accesses to shared state.          *)
(***************************************************************************)
EXTENDS Integers, Sequences, FiniteSets, TLC

(***************************************************************************)
(* Bounds                                                                  *)
(***************************************************************************)
NumRequests == 2
MaxStock == 2
MaxEvents == 2
MaxCacheErrors == 1

Procs == 1..NumRequests

(***************************************************************************)
(* domain/model/domain_error.go                                            *)
(***************************************************************************)
StatusBadRequest == 400
StatusNotFound == 404
StatusConflict == 409

CodeValidationError == "VALIDATION_ERROR"
CodeNotFound == "NOT_FOUND"
CodeConflict == "CONFLICT"
CodeInvalidState == "INVALID_STATE"
CodeInsufficientStock == "INSUFFICIENT_STOCK"

NewDomainError(code, httpStatus) == [Code |-> code, HTTPStatus |-> httpStatus]

\* the nil error
nil == [Code |-> "", HTTPStatus |-> 0]
\* an infrastructure error returned by a store; it is not a DomainError
StoreError == [Code |-> "store", HTTPStatus |-> 0]

ErrUserNotFound == NewDomainError("USER_NOT_FOUND", StatusNotFound)
ErrUserEmailRequired == NewDomainError(CodeValidationError, StatusBadRequest)
ErrUserEmailInvalid == NewDomainError(CodeValidationError, StatusBadRequest)
ErrUserNameRequired == NewDomainError(CodeValidationError, StatusBadRequest)
ErrUserPasswordRequired == NewDomainError(CodeValidationError, StatusBadRequest)
ErrUserEmailTaken == NewDomainError("EMAIL_TAKEN", StatusConflict)

ErrProductNotFound == NewDomainError("PRODUCT_NOT_FOUND", StatusNotFound)
ErrProductNameRequired == NewDomainError(CodeValidationError, StatusBadRequest)
ErrProductPriceInvalid == NewDomainError(CodeValidationError, StatusBadRequest)
ErrProductStockNegative == NewDomainError(CodeValidationError, StatusBadRequest)
ErrProductInsufficientStock == NewDomainError(CodeInsufficientStock, StatusConflict)

ErrOrderNotFound == NewDomainError("ORDER_NOT_FOUND", StatusNotFound)
ErrOrderUserRequired == NewDomainError(CodeValidationError, StatusBadRequest)
ErrOrderItemsRequired == NewDomainError(CodeValidationError, StatusBadRequest)
ErrOrderInvalidStatus == NewDomainError(CodeInvalidState, StatusBadRequest)
ErrOrderAlreadyCancelled == NewDomainError(CodeInvalidState, StatusConflict)

(***************************************************************************)
(* State                                                                   *)
(***************************************************************************)
VARIABLES
    users,      \* the users table: id -> row
    products,   \* the products collection: id -> document
    orders,     \* the orders table: id -> row
    req,        \* one record per request: its position and its locals
    published,  \* the calls made to EventBus.Publish, in order, with their results
    cache,      \* the cache: key -> entry
    creq,       \* one record per request made through a cache decorator
    cacheErrors,\* the number of cache calls that have failed
    bus,        \* the event bus: its handlers and the Publish calls made on it
    audit       \* the audit topic, its consumer and the audit_logs table

vars == <<users, products, orders, req, published, cache, creq, cacheErrors, bus, audit>>

\* the state of the cache decorators, which the services do not touch
cvars == <<cache, creq, cacheErrors>>

\* a bus without handlers, on which nothing was published
NoBus == [handlers |-> <<>>, calls |-> <<>>]

\* no audit consumer: an empty topic and an empty table
NoAudit == [log |-> <<>>, next |-> 0, marked |-> 0, committed |-> 0, sessions |-> 0,
            handled |-> <<>>, table |-> {}, now |-> 0]

NoID == ""

\* uuid.New() / primitive.NewObjectID(): an identifier no other request gets
NewID(p) == "new-" \o ToString(p)

UserIDs == {"u1", "u2"} \cup {NewID(p) : p \in Procs}
ProductIDs == {"p1", "p2"} \cup {NewID(p) : p \in Procs}
OrderIDs == {"o1", "o2"} \cup {NewID(p) : p \in Procs}

\* what a result record of an aggregate method looks like
Result(agg, err) == [agg |-> agg, err |-> err]

\* the result of a repository read that found nothing
NoAgg == [ID |-> NoID, events |-> <<>>]

(***************************************************************************)
(* Order aggregate                                                         *)
(***************************************************************************)
OrderStatusPending == "pending"
OrderStatusConfirmed == "confirmed"
OrderStatusShipped == "shipped"
OrderStatusDelivered == "delivered"
OrderStatusCancelled == "canceled"

OrderStatuses == {OrderStatusPending, OrderStatusConfirmed, OrderStatusShipped,
                  OrderStatusDelivered, OrderStatusCancelled}

OrderCreatedEvent(userID, itemCount, totalValue) ==
    [EventName |-> "order.created", UserID |-> userID,
     ItemCount |-> itemCount, TotalValue |-> totalValue]

OrderStatusChangedEvent(orderID, oldStatus, newStatus) ==
    [EventName |-> "order.status_changed", OrderID |-> orderID,
     OldStatus |-> oldStatus, NewStatus |-> newStatus]

OrderCancelledEvent(orderID, oldStatus) ==
    [EventName |-> "order.cancelled", OrderID |-> orderID, OldStatus |-> oldStatus]

recordEvent(agg, event) == [agg EXCEPT !.events = Append(@, event)]

RECURSIVE SumItems(_)
SumItems(items) ==
    IF items = <<>> THEN 0
    ELSE Head(items).Price * Head(items).Quantity + SumItems(Tail(items))

RECURSIVE SumPrices(_)
SumPrices(items) ==
    IF items = <<>> THEN 0 ELSE Head(items).Price + SumPrices(Tail(items))

\* calculateTotal adding up the unit prices without the quantities
calculateTotalOfPrices(o) == [o EXCEPT !.Total = SumPrices(o.Items)]

calculateTotal(o) == [o EXCEPT !.Total = SumItems(o.Items)]

OrderValidate(o) ==
    IF o.UserID = "" THEN ErrOrderUserRequired
    ELSE IF Len(o.Items) = 0 THEN ErrOrderItemsRequired
    ELSE nil

NewOrder(orderID, userID, items) ==
    LET order == [ID |-> orderID, UserID |-> userID, Items |-> items, Total |-> 0,
                  Status |-> OrderStatusPending, Deleted |-> FALSE, events |-> <<>>]
    IN  IF OrderValidate(order) # nil
        THEN Result(NoAgg, OrderValidate(order))
        ELSE Result(recordEvent(calculateTotal(order),
                        OrderCreatedEvent(userID, Len(items), SumItems(items))), nil)

Confirm(o) ==
    IF o.Status # OrderStatusPending
    THEN Result(o, ErrOrderInvalidStatus)
    ELSE Result(recordEvent([o EXCEPT !.Status = OrderStatusConfirmed],
                    OrderStatusChangedEvent(o.ID, OrderStatusPending, OrderStatusConfirmed)), nil)

Ship(o) ==
    IF o.Status # OrderStatusConfirmed
    THEN Result(o, ErrOrderInvalidStatus)
    ELSE Result(recordEvent([o EXCEPT !.Status = OrderStatusShipped],
                    OrderStatusChangedEvent(o.ID, OrderStatusConfirmed, OrderStatusShipped)), nil)

\* Deliver without its guard on the current status
DeliverUnguarded(o) ==
    Result(recordEvent([o EXCEPT !.Status = OrderStatusDelivered],
               OrderStatusChangedEvent(o.ID, OrderStatusShipped, OrderStatusDelivered)), nil)

Deliver(o) ==
    IF o.Status # OrderStatusShipped
    THEN Result(o, ErrOrderInvalidStatus)
    ELSE Result(recordEvent([o EXCEPT !.Status = OrderStatusDelivered],
                    OrderStatusChangedEvent(o.ID, OrderStatusShipped, OrderStatusDelivered)), nil)

\* Cancel reading the old status after it has overwritten it
CancelLateOldStatus(o) ==
    IF o.Status = OrderStatusCancelled
    THEN Result(o, ErrOrderAlreadyCancelled)
    ELSE IF o.Status = OrderStatusDelivered
    THEN Result(o, ErrOrderInvalidStatus)
    ELSE Result(recordEvent([o EXCEPT !.Status = OrderStatusCancelled],
                    OrderCancelledEvent(o.ID, OrderStatusCancelled)), nil)

Cancel(o) ==
    IF o.Status = OrderStatusCancelled
    THEN Result(o, ErrOrderAlreadyCancelled)
    ELSE IF o.Status = OrderStatusDelivered
    THEN Result(o, ErrOrderInvalidStatus)
    ELSE Result(recordEvent([o EXCEPT !.Status = OrderStatusCancelled],
                    OrderCancelledEvent(o.ID, o.Status)), nil)

(***************************************************************************)
(* Requests.  A repository read returns what the store holds; a repository *)
(* write either takes effect or fails with an error of the store.          *)
(***************************************************************************)
NoArgs == [status |-> "", quantity |-> 0, name |-> "", price |-> 0, stock |-> 0,
           email |-> "", password |-> "", userID |-> "", items |-> <<>>,
           offset |-> 0, limit |-> 0, tx |-> "nil"]

\* pc: "idle" before the call, "persist" between the in-memory mutation and
\* the repository write, "publish" between the write and publishEvents,
\* "done" after the return.  loaded is the aggregate as read from the store,
\* agg the aggregate the service holds, ret the aggregate it returns, err the
\* error it returns.  writes counts the repository writes invoked, werr is
\* the error the write returned and recorded keeps the events the aggregate
\* recorded during the call.  query is the paging (offset, limit) a List
\* call handed to the repository, <<>> when no List query was made.  drains
\* keeps what each Events() call on the aggregate returned.  conn is the
\* connection a repository operation ran its statement on.
IdleReq == [pc |-> "idle", op |-> "", id |-> NoID, args |-> NoArgs,
            loaded |-> NoAgg, agg |-> NoAgg, ret |-> NoAgg, err |-> nil,
            writes |-> 0, werr |-> nil, recorded |-> <<>>, query |-> <<>>,
            drains |-> <<>>, conn |-> ""]

Call(p, op, id, args) == [req[p] EXCEPT !.op = op, !.id = id, !.args = args]

Return(r, err) == [r EXCEPT !.pc = "done", !.err = err]

Loaded(r, loaded) == [r EXCEPT !.loaded = loaded]

\* the aggregate was mutated in memory; the repository write comes next
Mutated(r, agg) == [r EXCEPT !.pc = "persist", !.agg = agg, !.recorded = agg.events]

\* the repository write returned nil; publishEvents comes next
Persisted(r, ret) == [r EXCEPT !.pc = "publish", !.ret = ret, !.writes = @ + 1]

\* the error of the repository write is dropped and the call goes on
PersistFailedIgnored(r, err) == [r EXCEPT !.pc = "publish", !.writes = @ + 1, !.werr = err]

\* the repository write returned err, which the service returns
PersistFailed(r, err) ==
    [r EXCEPT !.pc = "done", !.err = err, !.writes = @ + 1, !.werr = err]

(***************************************************************************)
(* Event publication                                                       *)
(***************************************************************************)
NewBaseEvent(eventName, aggregateID, payload) ==
    [EventName |-> eventName, AggregateID |-> aggregateID, Payload |-> payload]

\* Events() returning the pending events without clearing them
EventsKept(agg) == [events |-> agg.events, agg |-> agg]

\* Events() returns the pending events and clears them
Events(agg) == [events |-> agg.events, agg |-> [agg EXCEPT !.events = <<>>]]

\* publishEvents given the aggregate the repository returned, which has no
\* pending events, instead of the aggregate that recorded them
publishEventsOfReturned(p, agg) ==
    [i \in 1..Len(Events(req[p].ret).events) |->
        [by |-> p,
         evt |-> NewBaseEvent(Events(req[p].ret).events[i].EventName, req[p].ret.ID,
                              Events(req[p].ret).events[i])]]

\* the calls publishEvents makes for the aggregate it is given
publishEvents(p, agg) ==
    [i \in 1..Len(Events(agg).events) |->
        [by |-> p,
         evt |-> NewBaseEvent(Events(agg).events[i].EventName, agg.ID,
                              Events(agg).events[i])]]

\* the error of an event bus whose Publish fails; not a DomainError
BusError == [Code |-> "bus", HTTPStatus |-> 0]

\* the loop of publishEvents returning at the first Publish that fails
PublishedUntilError(calls, errs) ==
    [i \in 1..(IF \E k \in 1..Len(calls) : errs[k] # nil
               THEN CHOOSE k \in 1..Len(calls) :
                        errs[k] # nil /\ \A j \in 1..(k - 1) : errs[j] = nil
               ELSE Len(calls)) |->
        [by |-> calls[i].by, evt |-> calls[i].evt, err |-> errs[i]]]

\* the loop of publishEvents: every call is made, errs[i] is what the i-th
\* Publish returns, and an error is logged and nothing else
Published(calls, errs) ==
    [i \in 1..Len(calls) |-> [by |-> calls[i].by, evt |-> calls[i].evt, err |-> errs[i]]]

PublishEvents(p) ==
    /\ req[p].pc = "publish"
    /\ \E errs \in [1..Len(publishEvents(p, req[p].agg)) -> {nil, BusError}] :
          published' = published \o Published(publishEvents(p, req[p].agg), errs)
    /\ req' = [req EXCEPT ![p] = Return([req[p] EXCEPT !.agg = Events(req[p].agg).agg], nil)]
    /\ UNCHANGED <<users, products, orders>>

(***************************************************************************)
(* Order repository (PostgreSQL)                                           *)
(***************************************************************************)
NoRow == [exists |-> FALSE]

orderToModel(e) ==
    [ID |-> e.ID, UserID |-> e.UserID, Items |-> e.Items, Total |-> e.Total,
     Status |-> e.Status, Deleted |-> e.Deleted, events |-> <<>>]

toOrderEntity(o) ==
    [exists |-> TRUE, ID |-> o.ID, UserID |-> o.UserID, Items |-> o.Items,
     Total |-> o.Total, Status |-> o.Status, Deleted |-> o.Deleted]

OrderRepoCreate(rows, order) == [rows EXCEPT ![order.ID] = toOrderEntity(order)]

\* WHERE id = ? AND deleted_at IS NULL
OrderRepoGetByID(rows, id) ==
    IF rows[id].exists /\ ~rows[id].Deleted THEN orderToModel(rows[id]) ELSE NoAgg

\* UPDATE orders SET status = ? WHERE id = ?
OrderRepoUpdateStatus(rows, id, status) ==
    IF rows[id].exists THEN [rows EXCEPT ![id].Status = status] ELSE rows

(***************************************************************************)
(* User repository (PostgreSQL): reads                                     *)
(***************************************************************************)
userToModel(e) ==
    [ID |-> e.ID, Email |-> e.Email, Name |-> e.Name, Password |-> e.Password,
     Deleted |-> e.Deleted, events |-> <<>>]

\* GetByID without the condition on deleted_at
UserRepoGetByIDDeleted(rows, id) ==
    IF id \in DOMAIN rows /\ rows[id].exists THEN userToModel(rows[id]) ELSE NoAgg

\* WHERE id = ? AND deleted_at IS NULL
UserRepoGetByID(rows, id) ==
    IF id \in DOMAIN rows /\ rows[id].exists /\ ~rows[id].Deleted
    THEN userToModel(rows[id]) ELSE NoAgg

(***************************************************************************)
(* Order service                                                           *)
(***************************************************************************)
\* the status argument is any string the caller sends
StatusArgs == OrderStatuses \cup {"refunded"}

Item(productID, quantity, price) ==
    [ProductID |-> productID, Quantity |-> quantity, Price |-> price]

ItemLists ==
    {<<>>, <<Item("p1", 1, 2)>>, <<Item("p1", 2, 3), Item("p2", 1, 1)>>,
     <<Item("p1", 0, 2)>>}

\* the switch of OrderService.UpdateStatus
ApplyStatus(order, status) ==
    CASE status = OrderStatusConfirmed -> Confirm(order)
      [] status = OrderStatusShipped -> Ship(order)
      [] status = OrderStatusDelivered -> Deliver(order)
      [] status = OrderStatusCancelled -> Cancel(order)
      [] OTHER -> Result(order, ErrOrderInvalidStatus)

OrderServiceCreate(p) ==
    /\ req[p].pc = "idle"
    /\ \E userID \in {"u1", "u2", ""}, items \in ItemLists :
         LET orderID == NewID(p)
             r == Call(p, "Order.Create", NoID, [NoArgs EXCEPT !.userID = userID, !.items = items])
             user == UserRepoGetByID(users, userID)
             new == NewOrder(orderID, userID, items)
         IN  req' = [req EXCEPT ![p] =
                 IF user = NoAgg THEN Return(r, ErrUserNotFound)
                 ELSE IF new.err # nil THEN Return(r, new.err)
                 ELSE Mutated(r, new.agg)]
    /\ UNCHANGED <<users, products, orders, published>>

OrderServiceCreatePersist(p) ==
    /\ req[p].pc = "persist"
    /\ req[p].op = "Order.Create"
    /\ \/ /\ orders' = OrderRepoCreate(orders, req[p].agg)
          /\ req' = [req EXCEPT ![p] =
                        Persisted(@, orderToModel(toOrderEntity(@.agg)))]
       \/ /\ orders' = orders
          /\ req' = [req EXCEPT ![p] = PersistFailed(@, StoreError)]
    /\ UNCHANGED <<users, products, published>>

OrderServiceUpdateStatus(p) ==
    /\ req[p].pc = "idle"
    /\ \E id \in {"o1", "o2"}, status \in StatusArgs :
         LET r == Call(p, "Order.UpdateStatus", id, [NoArgs EXCEPT !.status = status])
             order == OrderRepoGetByID(orders, id)
             m == ApplyStatus(order, status)
         IN  req' = [req EXCEPT ![p] =
                 IF order = NoAgg THEN Return(r, ErrOrderNotFound)
                 ELSE IF m.err # nil THEN Return(Loaded(r, order), m.err)
                 ELSE Mutated(Loaded(r, order), m.agg)]
    /\ UNCHANGED <<users, products, orders, published>>

OrderServiceCancel(p) ==
    /\ req[p].pc = "idle"
    /\ \E id \in {"o1", "o2"} :
         LET r == Call(p, "Order.Cancel", id, [NoArgs EXCEPT !.status = OrderStatusCancelled])
             order == OrderRepoGetByID(orders, id)
             m == Cancel(order)
         IN  req' = [req EXCEPT ![p] =
                 IF order = NoAgg THEN Return(r, ErrOrderNotFound)
                 ELSE IF m.err # nil THEN Return(Loaded(r, order), m.err)
                 ELSE Mutated(Loaded(r, order), m.agg)]
    /\ UNCHANGED <<users, products, orders, published>>

\* s.repo.UpdateStatus(ctx, nil, id, status) of UpdateStatus and of Cancel
OrderServiceStatusPersist(p) ==
    /\ req[p].pc = "persist"
    /\ req[p].op \in {"Order.UpdateStatus", "Order.Cancel"}
    /\ \/ /\ orders' = OrderRepoUpdateStatus(orders, req[p].id, req[p].args.status)
          /\ req' = [req EXCEPT ![p] = Persisted(@, NoAgg)]
       \/ /\ orders' = orders
          /\ req' = [req EXCEPT ![p] = PersistFailed(@, StoreError)]
    /\ UNCHANGED <<users, products, published>>

NextOrder ==
    /\ \E p \in Procs :
            \/ OrderServiceCreate(p)
            \/ OrderServiceCreatePersist(p)
            \/ OrderServiceUpdateStatus(p)
            \/ OrderServiceCancel(p)
            \/ OrderServiceStatusPersist(p)
            \/ PublishEvents(p)
    /\ UNCHANGED <<cvars, bus, audit>>

(***************************************************************************)
(* Product aggregate                                                       *)
(***************************************************************************)
ProductCreatedEvent(name, price, stock) ==
    [EventName |-> "product.created", Name |-> name, Price |-> price, Stock |-> stock]

ProductUpdatedEvent(id, name, price) ==
    [EventName |-> "product.updated", ID |-> id, Name |-> name, Price |-> price]

ProductDeletedEvent(id) == [EventName |-> "product.deleted", ID |-> id]

StockUpdatedEvent(productID, oldStock, newStock, change) ==
    [EventName |-> "product.stock_updated", ProductID |-> productID,
     OldStock |-> oldStock, NewStock |-> newStock, Change |-> change]

\* Validate without the check of the stock
ProductValidateNoStock(pr) ==
    IF pr.Name = "" THEN ErrProductNameRequired
    ELSE IF pr.Price <= 0 THEN ErrProductPriceInvalid
    ELSE nil

ProductValidate(pr) ==
    IF pr.Name = "" THEN ErrProductNameRequired
    ELSE IF pr.Price <= 0 THEN ErrProductPriceInvalid
    ELSE IF pr.Stock < 0 THEN ErrProductStockNegative
    ELSE nil

\* the new product has no ID: the repository assigns one to the document
NewProduct(name, price, stock) ==
    LET product == [ID |-> NoID, Name |-> name, Price |-> price, Stock |-> stock,
                    Deleted |-> FALSE, events |-> <<>>]
    IN  IF ProductValidate(product) # nil
        THEN Result(NoAgg, ProductValidate(product))
        ELSE Result(recordEvent(product, ProductCreatedEvent(name, price, stock)), nil)

ProductUpdate(pr, name, price) ==
    IF name = "" THEN Result(pr, ErrProductNameRequired)
    ELSE IF price <= 0 THEN Result(pr, ErrProductPriceInvalid)
    ELSE Result(recordEvent([pr EXCEPT !.Name = name, !.Price = price],
                    ProductUpdatedEvent(pr.ID, name, price)), nil)

ProductUpdateStock(pr, quantity) ==
    LET newStock == pr.Stock + quantity
    IN  IF newStock < 0 THEN Result(pr, ErrProductStockNegative)
        ELSE Result(recordEvent([pr EXCEPT !.Stock = newStock],
                        StockUpdatedEvent(pr.ID, newStock - quantity, newStock, quantity)), nil)

\* ReserveStock records no event
ProductReserveStock(pr, quantity) ==
    IF pr.Stock < quantity THEN Result(pr, ErrProductInsufficientStock)
    ELSE Result([pr EXCEPT !.Stock = pr.Stock - quantity], nil)

ProductMarkDeleted(pr) ==
    recordEvent([pr EXCEPT !.Deleted = TRUE], ProductDeletedEvent(pr.ID))

(***************************************************************************)
(* Product repository (MongoDB).  Each call is one InsertOne, FindOne or   *)
(* UpdateOne; a write gives the new collection and the error it returns.   *)
(***************************************************************************)
Written(rows, err) == [rows |-> rows, err |-> err]

productToModel(d) ==
    [ID |-> d.ID, Name |-> d.Name, Price |-> d.Price, Stock |-> d.Stock,
     Deleted |-> d.Deleted, events |-> <<>>]

toProductDocument(pr) ==
    [exists |-> TRUE, ID |-> pr.ID, Name |-> pr.Name, Price |-> pr.Price,
     Stock |-> pr.Stock, Deleted |-> pr.Deleted]

\* filter {_id: oid, deleted_at: nil}
ProductMatches(docs, id) == docs[id].exists /\ ~docs[id].Deleted

\* doc.ID = primitive.NewObjectID(); InsertOne
ProductRepoCreate(docs, product, oid) ==
    [docs EXCEPT ![oid] = [toProductDocument(product) EXCEPT !.ID = oid]]

ProductRepoGetByID(docs, id) ==
    IF ProductMatches(docs, id) THEN productToModel(docs[id]) ELSE NoAgg

\* filter {deleted_at: nil}: the products List returns, as a set
ProductRepoList(docs) ==
    {productToModel(docs[id]) : id \in {i \in DOMAIN docs : ProductMatches(docs, i)}}

\* $set name, description, price, stock
ProductRepoUpdate(docs, product) ==
    IF ProductMatches(docs, product.ID)
    THEN Written([docs EXCEPT ![product.ID].Name = product.Name,
                              ![product.ID].Price = product.Price,
                              ![product.ID].Stock = product.Stock], nil)
    ELSE Written(docs, ErrProductNotFound)

\* $set deleted_at
ProductRepoDelete(docs, id) ==
    IF ProductMatches(docs, id)
    THEN Written([docs EXCEPT ![id].Deleted = TRUE], nil)
    ELSE Written(docs, ErrProductNotFound)

\* $inc stock
ProductRepoUpdateStock(docs, id, quantity) ==
    IF ProductMatches(docs, id)
    THEN Written([docs EXCEPT ![id].Stock = @ + quantity], nil)
    ELSE Written(docs, ErrProductNotFound)

(***************************************************************************)
(* Product service                                                         *)
(***************************************************************************)
ProductArgIDs == {"p1", "p2"}
NameArgs == {"", "Widget", "Gadget"}
PriceArgs == {0, 5}
StockArgs == {-1, 0, 1}
QuantityArgs == (0 - MaxStock)..1

ProductServiceCreate(p) ==
    /\ req[p].pc = "idle"
    /\ \E name \in {"", "Gadget"}, price \in PriceArgs, stock \in StockArgs :
         LET r == Call(p, "Product.Create", NoID,
                       [NoArgs EXCEPT !.name = name, !.price = price, !.stock = stock])
             new == NewProduct(name, price, stock)
         IN  req' = [req EXCEPT ![p] =
                 IF new.err # nil THEN Return(r, new.err) ELSE Mutated(r, new.agg)]
    /\ UNCHANGED <<users, products, orders, published>>

ProductServiceCreatePersist(p) ==
    /\ req[p].pc = "persist"
    /\ req[p].op = "Product.Create"
    /\ \/ /\ products' = ProductRepoCreate(products, req[p].agg, NewID(p))
          /\ req' = [req EXCEPT ![p] = Persisted(@, productToModel(products'[NewID(p)]))]
       \/ /\ products' = products
          /\ req' = [req EXCEPT ![p] = PersistFailed(@, StoreError)]
    /\ UNCHANGED <<users, orders, published>>

ProductServiceUpdate(p) ==
    /\ req[p].pc = "idle"
    /\ \E id \in ProductArgIDs, name \in NameArgs \ {"Gadget"}, price \in PriceArgs :
         LET r == Call(p, "Product.Update", id, [NoArgs EXCEPT !.name = name, !.price = price])
             product == ProductRepoGetByID(products, id)
             m == ProductUpdate(product, name, price)
         IN  req' = [req EXCEPT ![p] =
                 IF product = NoAgg THEN Return(r, ErrProductNotFound)
                 ELSE IF m.err # nil THEN Return(Loaded(r, product), m.err)
                 ELSE Mutated(Loaded(r, product), m.agg)]
    /\ UNCHANGED <<users, products, orders, published>>

ProductServiceDelete(p) ==
    /\ req[p].pc = "idle"
    /\ \E id \in ProductArgIDs :
         LET r == Call(p, "Product.Delete", id, NoArgs)
             product == ProductRepoGetByID(products, id)
         IN  req' = [req EXCEPT ![p] =
                 IF product = NoAgg THEN Return(r, ErrProductNotFound)
                 ELSE Mutated(Loaded(r, product), ProductMarkDeleted(product))]
    /\ UNCHANGED <<users, products, orders, published>>

ProductServiceUpdateStock(p) ==
    /\ req[p].pc = "idle"
    /\ \E id \in ProductArgIDs, quantity \in QuantityArgs :
         LET r == Call(p, "Product.UpdateStock", id, [NoArgs EXCEPT !.quantity = quantity])
             product == ProductRepoGetByID(products, id)
             m == ProductUpdateStock(product, quantity)
         IN  req' = [req EXCEPT ![p] =
                 IF product = NoAgg THEN Return(r, ErrProductNotFound)
                 ELSE IF m.err # nil THEN Return(Loaded(r, product), m.err)
                 ELSE Mutated(Loaded(r, product), m.agg)]
    /\ UNCHANGED <<users, products, orders, published>>

\* the write of Update, Delete or UpdateStock; Update returns the product it holds
ProductWrite(r) ==
    CASE r.op = "Product.Update" -> ProductRepoUpdate(products, r.agg)
      [] r.op = "Product.Delete" -> ProductRepoDelete(products, r.id)
      [] r.op = "Product.UpdateStock" -> ProductRepoUpdateStock(products, r.id, r.args.quantity)

ProductServicePersist(p) ==
    /\ req[p].pc = "persist"
    /\ req[p].op \in {"Product.Update", "Product.Delete", "Product.UpdateStock"}
    /\ \/ /\ products' = ProductWrite(req[p]).rows
          /\ req' = [req EXCEPT ![p] =
                        IF ProductWrite(req[p]).err # nil
                        THEN PersistFailed(@, ProductWrite(req[p]).err)
                        ELSE Persisted(@, IF @.op = "Product.Update" THEN @.agg ELSE NoAgg)]
       \/ /\ products' = products
          /\ req' = [req EXCEPT ![p] = PersistFailed(@, StoreError)]
    /\ UNCHANGED <<users, orders, published>>

NextProduct ==
    /\ \E p \in Procs :
            \/ ProductServiceCreate(p)
            \/ ProductServiceCreatePersist(p)
            \/ ProductServiceUpdate(p)
            \/ ProductServiceDelete(p)
            \/ ProductServiceUpdateStock(p)
            \/ ProductServicePersist(p)
            \/ PublishEvents(p)
    /\ UNCHANGED <<cvars, bus, audit>>

(***************************************************************************)
(* User aggregate.  An email is the sequence of its characters, so that    *)
(* the format check is computed as the regular expression computes it.     *)
(***************************************************************************)
Letters == {"a", "b", "c", "d", "e", "f", "g", "h", "i", "j", "k", "l", "m",
            "n", "o", "p", "q", "r", "s", "t", "u", "v", "w", "x", "y", "z",
            "A", "B", "C", "D", "E", "F", "G", "H", "I", "J", "K", "L", "M",
            "N", "O", "P", "Q", "R", "S", "T", "U", "V", "W", "X", "Y", "Z"}
Digits == {"0", "1", "2", "3", "4", "5", "6", "7", "8", "9"}
LocalChars == Letters \cup Digits \cup {".", "_", "%", "+", "-"}
DomainChars == Letters \cup Digits \cup {".", "-"}

AllIn(str, from, to, class) == \A i \in from..to : str[i] \in class

\* ^[a-zA-Z0-9._%+-]+@[a-zA-Z0-9.-]+\.[a-zA-Z]{2,}$
emailRegexMatches(e) ==
    \E at \in 1..Len(e), dot \in 1..Len(e) :
        /\ e[at] = "@"
        /\ e[dot] = "."
        /\ at >= 2
        /\ AllIn(e, 1, at - 1, LocalChars)
        /\ dot >= at + 2
        /\ AllIn(e, at + 1, dot - 1, DomainChars)
        /\ Len(e) >= dot + 2
        /\ AllIn(e, dot + 1, Len(e), Letters)

UserCreatedEvent(email, name) ==
    [EventName |-> "user.created", Email |-> email, Name |-> name]

UserUpdatedEvent(id, name) == [EventName |-> "user.updated", ID |-> id, Name |-> name]

UserDeletedEvent(id) == [EventName |-> "user.deleted", ID |-> id]

UserValidate(u) ==
    IF u.Email = <<>> THEN ErrUserEmailRequired
    ELSE IF ~emailRegexMatches(u.Email) THEN ErrUserEmailInvalid
    ELSE IF u.Name = "" THEN ErrUserNameRequired
    ELSE IF u.Password = "" THEN ErrUserPasswordRequired
    ELSE nil

NewUser(id, email, name, password) ==
    LET user == [ID |-> id, Email |-> email, Name |-> name, Password |-> password,
                 Deleted |-> FALSE, events |-> <<>>]
    IN  IF UserValidate(user) # nil
        THEN Result(NoAgg, UserValidate(user))
        ELSE Result(recordEvent(user, UserCreatedEvent(email, name)), nil)

UserUpdate(u, name) ==
    IF name = "" THEN Result(u, ErrUserNameRequired)
    ELSE Result(recordEvent([u EXCEPT !.Name = name], UserUpdatedEvent(u.ID, name)), nil)

\* UpdatePassword has no check and records no event
UserUpdatePassword(u, hashedPassword) == [u EXCEPT !.Password = hashedPassword]

UserMarkDeleted(u) == recordEvent([u EXCEPT !.Deleted = TRUE], UserDeletedEvent(u.ID))

(***************************************************************************)
(* User repository (PostgreSQL): writes and the lookup by email            *)
(***************************************************************************)
\* the error of an INSERT that violates a unique index (SQLSTATE 23505);
\* like StoreError it is not a DomainError
ErrDuplicatedKey == [Code |-> "23505", HTTPStatus |-> 0]

toUserEntity(u) ==
    [exists |-> TRUE, ID |-> u.ID, Email |-> u.Email, Name |-> u.Name,
     Password |-> u.Password, Deleted |-> u.Deleted]

\* INSERT without the unique index on email
UserRepoCreateNoIndex(rows, user) ==
    Written([rows EXCEPT ![user.ID] = toUserEntity(user)], nil)

\* INSERT; ID is the primary key and Email has a unique index, which covers
\* the soft-deleted rows as well
UserRepoCreate(rows, user) ==
    IF \E id \in DOMAIN rows :
          rows[id].exists /\ (rows[id].ID = user.ID \/ rows[id].Email = user.Email)
    THEN Written(rows, ErrDuplicatedKey)
    ELSE Written([rows EXCEPT ![user.ID] = toUserEntity(user)], nil)

\* db.Save: writes every column of the row with this primary key
UserRepoUpdate(rows, user) == [rows EXCEPT ![user.ID] = toUserEntity(user)]

\* UPDATE users SET deleted_at = now WHERE id = ?
UserRepoDelete(rows, id) ==
    IF rows[id].exists THEN [rows EXCEPT ![id].Deleted = TRUE] ELSE rows

\* WHERE deleted_at IS NULL: the users List returns, as a set
UserRepoList(rows) ==
    {userToModel(rows[id]) : id \in {i \in DOMAIN rows : rows[i].exists /\ ~rows[i].Deleted}}

\* the lookup by email with the deleted_at condition inverted
UserRepoGetByEmailDeleted(rows, email) ==
    LET found == {id \in DOMAIN rows :
                    rows[id].exists /\ rows[id].Deleted /\ rows[id].Email = email}
    IN  IF found = {} THEN NoAgg ELSE userToModel(rows[CHOOSE id \in found : TRUE])

\* WHERE email = ? AND deleted_at IS NULL
UserRepoGetByEmail(rows, email) ==
    LET found == {id \in DOMAIN rows :
                    rows[id].exists /\ ~rows[id].Deleted /\ rows[id].Email = email}
    IN  IF found = {} THEN NoAgg ELSE userToModel(rows[CHOOSE id \in found : TRUE])

(***************************************************************************)
(* User service                                                            *)
(***************************************************************************)
EmailAB == <<"a", "@", "b", ".", "c", "o", "m">>
EmailCD == <<"c", "@", "d", ".", "i", "o">>
EmailEF == <<"e", "@", "f", ".", "o", "r", "g">>
EmailNoTLD == <<"a", "@", "b">>

CreateUserArgs ==
    {[NoArgs EXCEPT !.email = e, !.name = "B", !.password = "h"] :
        e \in {EmailAB, EmailCD, EmailEF, EmailNoTLD, <<>>}}
    \cup {[NoArgs EXCEPT !.email = EmailEF, !.name = "", !.password = "h"],
          [NoArgs EXCEPT !.email = EmailEF, !.name = "B", !.password = ""]}

UserServiceCreate(p) ==
    /\ req[p].pc = "idle"
    /\ \E args \in CreateUserArgs :
         LET r == Call(p, "User.Create", NoID, args)
             existing == UserRepoGetByEmail(users, args.email)
             new == NewUser(NewID(p), args.email, args.name, args.password)
         IN  req' = [req EXCEPT ![p] =
                 IF existing # NoAgg THEN Return(Loaded(r, existing), ErrUserEmailTaken)
                 ELSE IF new.err # nil THEN Return(r, new.err)
                 ELSE Mutated(r, new.agg)]
    /\ UNCHANGED <<users, products, orders, published>>

UserServiceCreatePersist(p) ==
    /\ req[p].pc = "persist"
    /\ req[p].op = "User.Create"
    /\ \/ /\ users' = UserRepoCreate(users, req[p].agg).rows
          /\ req' = [req EXCEPT ![p] =
                        IF UserRepoCreate(users, @.agg).err # nil
                        THEN PersistFailed(@, UserRepoCreate(users, @.agg).err)
                        ELSE Persisted(@, userToModel(toUserEntity(@.agg)))]
       \/ /\ users' = users
          /\ req' = [req EXCEPT ![p] = PersistFailed(@, StoreError)]
    /\ UNCHANGED <<products, orders, published>>

UserServiceUpdate(p) ==
    /\ req[p].pc = "idle"
    /\ \E id \in {"u1", "u2"}, name \in {"", "C"} :
         LET r == Call(p, "User.Update", id, [NoArgs EXCEPT !.name = name])
             user == UserRepoGetByID(users, id)
             m == UserUpdate(user, name)
         IN  req' = [req EXCEPT ![p] =
                 IF user = NoAgg THEN Return(r, ErrUserNotFound)
                 ELSE IF m.err # nil THEN Return(Loaded(r, user), m.err)
                 ELSE Mutated(Loaded(r, user), m.agg)]
    /\ UNCHANGED <<users, products, orders, published>>

UserServiceDelete(p) ==
    /\ req[p].pc = "idle"
    /\ \E id \in {"u1", "u2"} :
         LET r == Call(p, "User.Delete", id, NoArgs)
             user == UserRepoGetByID(users, id)
         IN  req' = [req EXCEPT ![p] =
                 IF user = NoAgg THEN Return(r, ErrUserNotFound)
                 ELSE Mutated(Loaded(r, user), UserMarkDeleted(user))]
    /\ UNCHANGED <<users, products, orders, published>>

\* the write of Update or Delete; Update returns the user it holds
UserServicePersist(p) ==
    /\ req[p].pc = "persist"
    /\ req[p].op \in {"User.Update", "User.Delete"}
    /\ \/ /\ users' = IF req[p].op = "User.Update"
                      THEN UserRepoUpdate(users, req[p].agg)
                      ELSE UserRepoDelete(users, req[p].id)
          /\ req' = [req EXCEPT ![p] =
                        Persisted(@, IF @.op = "User.Update" THEN @.agg ELSE NoAgg)]
       \/ /\ users' = users
          /\ req' = [req EXCEPT ![p] = PersistFailed(@, StoreError)]
    /\ UNCHANGED <<products, orders, published>>

NextUser ==
    /\ \E p \in Procs :
            \/ UserServiceCreate(p)
            \/ UserServiceCreatePersist(p)
            \/ UserServiceUpdate(p)
            \/ UserServiceDelete(p)
            \/ UserServicePersist(p)
            \/ PublishEvents(p)
    /\ UNCHANGED <<cvars, bus, audit>>

(***************************************************************************)
(* The cache.  get(key) gives the entry or a miss, set(key, value) and     *)
(* delete(key) change one entry; any of the three may fail, and a failed   *)
(* call changes nothing.                                                   *)
(***************************************************************************)
productCacheKey(id) == <<"product:", id>>

nameCacheKey(name) == <<"product:name:", name>>

userCacheKey(id) == <<"user:", id>>

emailCacheKey(email) == <<"user:email:", email>>

Miss == [hit |-> FALSE]

Entry(value) == [hit |-> TRUE, val |-> value]

\* the cache maps the keys that have an entry to their values
EmptyCache == [k \in {} |-> NoAgg]

CacheEntry(c, key) == IF key \in DOMAIN c THEN Entry(c[key]) ELSE Miss

\* the value is stored as JSON: the exported fields, without the pending events
Serialized(agg) == [agg EXCEPT !.events = <<>>]

CacheSet(c, key, value) ==
    [k \in DOMAIN c \cup {key} |-> IF k = key THEN value ELSE c[k]]

CacheDelete(c, key) == [k \in DOMAIN c \ {key} |-> c[k]]

\* a cache call: it takes effect, or it fails and leaves the cache as it is
CacheCall(after) ==
    \/ cache' = after /\ cacheErrors' = cacheErrors
    \/ cacheErrors < MaxCacheErrors /\ cache' = cache /\ cacheErrors' = cacheErrors + 1

(***************************************************************************)
(* Requests made through a decorator.  cpc: "idle" before the call, "call" *)
(* before the delegate's mutating call, "delegate" while it runs (req[p]   *)
(* is that call), "read" before delegate.Get, "inv", "invkey", "set",      *)
(* "setkey" before the cache call of that name, "done" after the return.   *)
(* current is what the delegate.Get before the write returned, ret and err *)
(* what the decorator returns, reads counts the delegate.Get calls of a    *)
(* Get, cacheWrites the set and delete calls made and cacheFailed those    *)
(* of the request's cache calls that failed.                               *)
(***************************************************************************)
IdleCReq == [cpc |-> "idle", op |-> "", id |-> NoID, args |-> NoArgs, current |-> NoAgg,
             ret |-> NoAgg, err |-> nil, reads |-> 0, cacheWrites |-> 0, cacheFailed |-> 0]

\* no decorator in front of the services: no cache entry, no decorator request
InitCache ==
    /\ cache = EmptyCache
    /\ creq = [p \in {} |-> IdleCReq]
    /\ cacheErrors = 0
    /\ bus = NoBus
    /\ audit = NoAudit

\* the requests that may write; the others read
Writers == {1, 2}

ProductOps ==
    {"Product.Create", "Product.Update", "Product.Delete", "Product.UpdateStock", "Product.Get"}

\* userCacheKey(id) or productCacheKey(id)
primaryKey(op, id) == IF op \in ProductOps THEN productCacheKey(id) ELSE userCacheKey(id)

\* emailCacheKey(user.Email) or nameCacheKey(product.Name)
secondaryKey(op, agg) ==
    IF op \in ProductOps THEN nameCacheKey(agg.Name) ELSE emailCacheKey(agg.Email)

\* s.delegate.Get(ctx, id)
delegateGet(op, id) ==
    IF op \in ProductOps THEN ProductRepoGetByID(products, id) ELSE UserRepoGetByID(users, id)

\* what the decorator does once the delegate's mutating call has succeeded
AfterDelegate(op) ==
    CASE op \in {"Product.Create", "User.Create"} -> "set"
      [] OTHER -> "inv"

\* what follows the invalidation of the primary entry
AfterInvalidate(r) ==
    CASE r.op = "Product.UpdateStock" -> "done"
      [] r.current # NoAgg -> "invkey"
      [] r.op \in {"Product.Update", "User.Update"} -> "set"
      [] OTHER -> "done"

\* what follows the invalidation of the secondary entry
AfterInvalidateKey(r) ==
    IF r.op \in {"Product.Update", "User.Update"} THEN "set" ELSE "done"

\* the record of a request after one cache write call whose error is returned
CacheWrittenOrFailed(r, next) ==
    IF cacheErrors' > cacheErrors
    THEN [r EXCEPT !.cpc = "done", !.cacheWrites = @ + 1, !.cacheFailed = @ + 1,
                   !.ret = NoAgg, !.err = StoreError]
    ELSE [r EXCEPT !.cpc = next, !.cacheWrites = @ + 1]

\* the record of a request after one cache write call: an error is only logged
CacheWritten(r, next) ==
    [r EXCEPT !.cpc = next, !.cacheWrites = @ + 1,
              !.cacheFailed = @ + (cacheErrors' - cacheErrors)]

(***************************************************************************)
(* CachedProductService and CachedUserService                              *)
(***************************************************************************)
\* Create and UpdateStock: the delegate is called at once
CachedCreate(p) ==
    /\ creq[p].cpc = "idle"
    /\ p \in Writers
    /\ \/ /\ ProductServiceCreate(p)
          /\ req'[p].args.price = 5
          /\ req'[p].args.stock = 1
       \/ /\ UserServiceCreate(p)
          /\ req'[p].args.email \in {EmailEF, <<>>}
          /\ req'[p].args.name = "B"
          /\ req'[p].args.password = "h"
    /\ creq' = [creq EXCEPT ![p] = [@ EXCEPT !.cpc = "delegate", !.op = req'[p].op,
                                                !.args = req'[p].args]]
    /\ UNCHANGED <<cache, cacheErrors>>

CachedUpdateStock(p) ==
    /\ creq[p].cpc = "idle"
    /\ p \in Writers
    /\ ProductServiceUpdateStock(p)
    /\ req'[p].id = "p1"
    /\ req'[p].args.quantity \in {0 - MaxStock, 0 - 1}
    /\ creq' = [creq EXCEPT ![p] = [@ EXCEPT !.cpc = "delegate", !.op = req'[p].op,
                                                !.id = req'[p].id, !.args = req'[p].args]]
    /\ UNCHANGED <<cache, cacheErrors>>

\* the requests for Update and Delete
WriteCalls ==
    {[op |-> "Product.Update", id |-> "p1", args |-> [NoArgs EXCEPT !.name = n, !.price = 5]] :
        n \in {"", "Widget"}}
    \cup {[op |-> "Product.Delete", id |-> "p1", args |-> NoArgs]}
    \cup {[op |-> "User.Update", id |-> "u1", args |-> [NoArgs EXCEPT !.name = n]] :
            n \in {"", "C"}}
    \cup {[op |-> "User.Delete", id |-> "u1", args |-> NoArgs]}

\* Update and Delete: currentProduct, _ := s.delegate.Get(ctx, id)
CachedCurrent(p) ==
    /\ creq[p].cpc = "idle"
    /\ p \in Writers
    /\ \E c \in WriteCalls :
         creq' = [creq EXCEPT ![p] =
                    [@ EXCEPT !.cpc = "call", !.op = c.op, !.id = c.id, !.args = c.args,
                              !.current = delegateGet(c.op, c.id)]]
    /\ UNCHANGED <<users, products, orders, req, published, cache, cacheErrors>>

\* Update and Delete: the call of the delegate with the arguments of the request
CachedCall(p) ==
    /\ creq[p].cpc = "call"
    /\ \/ creq[p].op = "Product.Update" /\ ProductServiceUpdate(p)
       \/ creq[p].op = "Product.Delete" /\ ProductServiceDelete(p)
       \/ creq[p].op = "User.Update" /\ UserServiceUpdate(p)
       \/ creq[p].op = "User.Delete" /\ UserServiceDelete(p)
    /\ req'[p].id = creq[p].id
    /\ req'[p].args = creq[p].args
    /\ creq' = [creq EXCEPT ![p].cpc = "delegate"]
    /\ UNCHANGED <<cache, cacheErrors>>

\* the delegate's call goes on; the bus takes every event
CachedDelegate(p) ==
    /\ creq[p].cpc = "delegate"
    /\ \/ ProductServiceCreatePersist(p)
       \/ ProductServicePersist(p)
       \/ UserServiceCreatePersist(p)
       \/ UserServicePersist(p)
       \/ PublishEvents(p) /\ \A i \in 1..Len(published') : published'[i].err = nil
    /\ UNCHANGED <<cvars, bus, audit>>

\* the return of the delegate with the cache calls made whatever it returned
CachedReturnedAlways(p) ==
    /\ creq[p].cpc = "delegate"
    /\ req[p].pc = "done"
    /\ creq' = [creq EXCEPT ![p] =
                  IF req[p].err # nil
                  THEN [@ EXCEPT !.cpc = "inv", !.err = req[p].err]
                  ELSE [@ EXCEPT !.cpc = AfterDelegate(creq[p].op), !.ret = req[p].ret]]
    /\ UNCHANGED <<users, products, orders, req, published, cache, cacheErrors>>

\* the delegate has returned: its error is returned, or the cache calls follow
CachedReturned(p) ==
    /\ creq[p].cpc = "delegate"
    /\ req[p].pc = "done"
    /\ creq' = [creq EXCEPT ![p] =
                  IF req[p].err # nil
                  THEN [@ EXCEPT !.cpc = "done", !.err = req[p].err]
                  ELSE [@ EXCEPT !.cpc = AfterDelegate(creq[p].op), !.ret = req[p].ret]]
    /\ UNCHANGED <<users, products, orders, req, published, cache, cacheErrors>>

\* invalidateProductCache, invalidateUserCache
Invalidate(p) ==
    /\ creq[p].cpc = "inv"
    /\ CacheCall(CacheDelete(cache, primaryKey(creq[p].op, creq[p].id)))
    /\ creq' = [creq EXCEPT ![p] = CacheWritten(creq[p], AfterInvalidate(creq[p]))]
    /\ UNCHANGED <<users, products, orders, req, published>>

\* invalidateNameCache(currentProduct.Name), invalidateEmailCache(currentUser.Email)
InvalidateKey(p) ==
    /\ creq[p].cpc = "invkey"
    /\ CacheCall(CacheDelete(cache, secondaryKey(creq[p].op, creq[p].current)))
    /\ creq' = [creq EXCEPT ![p] = CacheWritten(creq[p], AfterInvalidateKey(creq[p]))]
    /\ UNCHANGED <<users, products, orders, req, published>>

\* cacheProduct, cacheUser: the entry of the aggregate
CacheAggregate(p) ==
    /\ creq[p].cpc = "set"
    /\ CacheCall(CacheSet(cache, primaryKey(creq[p].op, creq[p].ret.ID),
                          Serialized(creq[p].ret)))
    /\ creq' = [creq EXCEPT ![p] = CacheWritten(creq[p], "setkey")]
    /\ UNCHANGED <<users, products, orders, req, published>>

\* cacheProduct, cacheUser: the entry name -> id or email -> id
CacheKey(p) ==
    /\ creq[p].cpc = "setkey"
    /\ CacheCall(CacheSet(cache, secondaryKey(creq[p].op, creq[p].ret), creq[p].ret.ID))
    /\ creq' = [creq EXCEPT ![p] = CacheWritten(creq[p], "done")]
    /\ UNCHANGED <<users, products, orders, req, published>>

\* the requests for Get
GetCalls ==
    {[op |-> "Product.Get", id |-> id] : id \in ProductArgIDs}
    \cup {[op |-> "User.Get", id |-> id] : id \in {"u1", "u2"}}

\* what s.cache.Get gave: a hit, a miss, or an error
CacheGets(key) ==
    {[err |-> FALSE, entry |-> CacheEntry(cache, key)]}
    \cup IF cacheErrors < MaxCacheErrors THEN {[err |-> TRUE, entry |-> Miss]} ELSE {}

\* a Get that asks the delegate although the cache gave the entry
CachedGetThrough(p) ==
    /\ creq[p].cpc = "idle"
    /\ \E c \in GetCalls : \E got \in CacheGets(primaryKey(c.op, c.id)) :
         /\ creq' = [creq EXCEPT ![p] =
                       [@ EXCEPT !.op = c.op, !.id = c.id, !.cpc = "read",
                                 !.cacheFailed = IF got.err THEN 1 ELSE 0]]
         /\ cacheErrors' = cacheErrors + (IF got.err THEN 1 ELSE 0)
    /\ UNCHANGED <<users, products, orders, req, published, cache>>

\* Get: a hit is returned; after a miss or an error the delegate is asked
CachedGet(p) ==
    /\ creq[p].cpc = "idle"
    /\ \E c \in GetCalls : \E got \in CacheGets(primaryKey(c.op, c.id)) :
         /\ creq' = [creq EXCEPT ![p] =
                       IF ~got.err /\ got.entry.hit
                       THEN [@ EXCEPT !.op = c.op, !.id = c.id, !.cpc = "done",
                                      !.ret = got.entry.val]
                       ELSE [@ EXCEPT !.op = c.op, !.id = c.id, !.cpc = "read",
                                      !.cacheFailed = IF got.err THEN 1 ELSE 0]]
         /\ cacheErrors' = cacheErrors + (IF got.err THEN 1 ELSE 0)
    /\ UNCHANGED <<users, products, orders, req, published, cache>>

\* Get: s.delegate.Get, and the result is cached if there is one
CachedRead(p) ==
    /\ creq[p].cpc = "read"
    /\ creq' = [creq EXCEPT ![p] =
                  [@ EXCEPT !.reads = @ + 1,
                            !.ret = delegateGet(creq[p].op, creq[p].id),
                            !.cpc = IF delegateGet(creq[p].op, creq[p].id) = NoAgg
                                    THEN "done" ELSE "set"]]
    /\ UNCHANGED <<users, products, orders, req, published, cache, cacheErrors>>

NextCached ==
    /\ \E p \in Procs :
             \/ CachedCreate(p)
             \/ CachedUpdateStock(p)
             \/ CachedCurrent(p)
             \/ CachedCall(p)
             \/ CachedDelegate(p)
             \/ CachedReturned(p)
             \/ Invalidate(p)
             \/ InvalidateKey(p)
             \/ CacheAggregate(p)
             \/ CacheKey(p)
             \/ CachedGet(p)
             \/ CachedRead(p)
    /\ UNCHANGED <<bus, audit>>

(***************************************************************************)
(* Initial states: the stores hold what earlier requests left in them      *)
(***************************************************************************)
UserRow(id, email, deleted) ==
    [exists |-> TRUE, ID |-> id, Email |-> email, Name |-> "A", Password |-> "h",
     Deleted |-> deleted]

OrderRow(id, userID, items, status) ==
    [exists |-> TRUE, ID |-> id, UserID |-> userID, Items |-> items,
     Total |-> SumItems(items), Status |-> status, Deleted |-> FALSE]

\* u1 is a registered user, u2 a user that was deleted
UsersInit ==
    [id \in UserIDs |->
        CASE id = "u1" -> UserRow("u1", EmailAB, FALSE)
          [] id = "u2" -> UserRow("u2", EmailCD, TRUE)
          [] OTHER -> NoRow]

ProductsInit == [id \in ProductIDs |-> NoRow]

InitRequests ==
    /\ req = [p \in Procs |-> IdleReq]
    /\ published = <<>>
    /\ InitCache

InitOrder ==
    /\ users = UsersInit
    /\ products = ProductsInit
    /\ \E status \in OrderStatuses :
         orders = [id \in OrderIDs |->
                     IF id = "o1" THEN OrderRow("o1", "u1", <<Item("p1", 1, 2)>>, status)
                     ELSE NoRow]
    /\ InitRequests

SpecOrder == InitOrder /\ [][NextOrder]_vars

\* publishEvents on an order with several pending events: the order was
\* changed in memory by a chain of mutators, each recording its event, and
\* stored, and request 1 is about to publish
RECURSIVE ApplyChain(_, _)
ApplyChain(order, chain) ==
    IF chain = <<>> THEN Result(order, nil)
    ELSE IF ApplyStatus(order, Head(chain)).err # nil
    THEN Result(order, ApplyStatus(order, Head(chain)).err)
    ELSE ApplyChain(ApplyStatus(order, Head(chain)).agg, Tail(chain))

PendingOrder == orderToModel(OrderRow("o1", "u1", <<Item("p1", 1, 2)>>, OrderStatusPending))

Chains ==
    {chain \in UNION {[1..n -> OrderStatuses] : n \in 1..MaxEvents} :
        ApplyChain(PendingOrder, chain).err = nil}

InPublish(agg) ==
    [IdleReq EXCEPT !.pc = "publish", !.op = "Order.UpdateStatus", !.id = agg.ID,
                    !.args = [NoArgs EXCEPT !.status = agg.Status],
                    !.loaded = PendingOrder, !.agg = agg, !.recorded = agg.events,
                    !.writes = 1]

InitPublish ==
    /\ users = UsersInit
    /\ products = ProductsInit
    /\ \E chain \in Chains :
         LET agg == ApplyChain(PendingOrder, chain).agg
         IN  /\ orders = [id \in OrderIDs |->
                            IF id = "o1" THEN toOrderEntity(agg) ELSE NoRow]
             /\ req = [p \in Procs |-> IF p = 1 THEN InPublish(agg) ELSE IdleReq]
    /\ published = <<>>
    /\ InitCache

SpecPublish == InitPublish /\ [][NextOrder]_vars

ProductDoc(id, name, price, stock, deleted) ==
    [exists |-> TRUE, ID |-> id, Name |-> name, Price |-> price, Stock |-> stock,
     Deleted |-> deleted]

OrdersInit ==
    [id \in OrderIDs |->
        IF id = "o1" THEN OrderRow("o1", "u1", <<Item("p1", 1, 2)>>, OrderStatusPending)
        ELSE NoRow]

InitProduct ==
    /\ users = UsersInit
    /\ orders = OrdersInit
    /\ \E stock \in 0..MaxStock :
         products = [id \in ProductIDs |->
                        CASE id = "p1" -> ProductDoc("p1", "Widget", 5, stock, FALSE)
                          [] id = "p2" -> ProductDoc("p2", "Old", 3, 0, TRUE)
                          [] OTHER -> NoRow]
    /\ InitRequests

SpecProduct == InitProduct /\ [][NextProduct]_vars

InitUser ==
    /\ users = UsersInit
    /\ products = ProductsInit
    /\ orders = OrdersInit
    /\ InitRequests

SpecUser == InitUser /\ [][NextUser]_vars

(***************************************************************************)
(* The mutators of the aggregates, each applied to an aggregate drawn from *)
(* a bounded set: loaded is the aggregate before the call, agg after it    *)
(***************************************************************************)
Applied(p, op, before, result) ==
    [IdleReq EXCEPT !.pc = "done", !.op = op, !.loaded = before,
                    !.agg = result.agg, !.err = result.err]

\* the events an aggregate may hold before the call
PendingLists == {<<>>, <<[EventName |-> "earlier"]>>}

UserAggregates ==
    {[userToModel(UserRow("u1", EmailAB, deleted)) EXCEPT !.events = evs] :
        deleted \in BOOLEAN, evs \in PendingLists}

ProductAggregates ==
    {[productToModel(ProductDoc("p1", "Widget", 5, stock, FALSE)) EXCEPT !.events = evs] :
        stock \in 0..MaxStock, evs \in PendingLists}

OrderAggregates ==
    {[orderToModel(OrderRow("o1", "u1", <<Item("p1", 1, 2)>>, status)) EXCEPT !.events = evs] :
        status \in OrderStatuses, evs \in PendingLists}

UserMutate(p) ==
    /\ req[p].pc = "idle"
    /\ \E u \in UserAggregates :
         \/ \E name \in {"", "C"} :
              req' = [req EXCEPT ![p] = Applied(p, "User.Update", u, UserUpdate(u, name))]
         \/ \E password \in {"", "h2"} :
              req' = [req EXCEPT ![p] = Applied(p, "User.UpdatePassword", u,
                                                Result(UserUpdatePassword(u, password), nil))]
         \/ req' = [req EXCEPT ![p] = Applied(p, "User.MarkDeleted", u,
                                              Result(UserMarkDeleted(u), nil))]
    /\ UNCHANGED <<users, products, orders, published>>

ProductMutate(p) ==
    /\ req[p].pc = "idle"
    /\ \E pr \in ProductAggregates :
         \/ \E name \in NameArgs, price \in PriceArgs :
              req' = [req EXCEPT ![p] = Applied(p, "Product.Update", pr,
                                                ProductUpdate(pr, name, price))]
         \/ \E quantity \in QuantityArgs :
              req' = [req EXCEPT ![p] = Applied(p, "Product.UpdateStock", pr,
                                                ProductUpdateStock(pr, quantity))]
         \/ \E quantity \in (0 - 1)..(MaxStock + 1) :
              req' = [req EXCEPT ![p] = Applied(p, "Product.ReserveStock", pr,
                                                ProductReserveStock(pr, quantity))]
         \/ req' = [req EXCEPT ![p] = Applied(p, "Product.MarkDeleted", pr,
                                              Result(ProductMarkDeleted(pr), nil))]
    /\ UNCHANGED <<users, products, orders, published>>

OrderMutate(p) ==
    /\ req[p].pc = "idle"
    /\ \E o \in OrderAggregates, status \in OrderStatuses \ {OrderStatusPending} :
         req' = [req EXCEPT ![p] = Applied(p, "Order." \o status, o, ApplyStatus(o, status))]
    /\ UNCHANGED <<users, products, orders, published>>

NextMutators ==
    /\ \E p \in Procs : UserMutate(p) \/ ProductMutate(p) \/ OrderMutate(p)
    /\ UNCHANGED <<cvars, bus, audit>>

InitMutators ==
    /\ users = UsersInit
    /\ products = ProductsInit
    /\ orders = OrdersInit
    /\ InitRequests

SpecMutators == InitMutators /\ [][NextMutators]_vars

(***************************************************************************)
(* The three services together                                             *)
(***************************************************************************)
Init ==
    /\ users = UsersInit
    /\ products = [id \in ProductIDs |->
                      CASE id = "p1" -> ProductDoc("p1", "Widget", 5, 1, FALSE)
                        [] id = "p2" -> ProductDoc("p2", "Old", 3, 0, TRUE)
                        [] OTHER -> NoRow]
    /\ orders = OrdersInit
    /\ InitRequests

\* the bus takes every event here; its failures are in SpecOrder, SpecProduct,
\* SpecUser and SpecPublish
Next ==
    /\ NextUser \/ NextProduct \/ NextOrder
    /\ \A i \in 1..Len(published') : published'[i].err = nil

Spec == Init /\ [][Next]_vars

(***************************************************************************)
(* The product and the user service behind their cache decorators.  The    *)
(* cache is empty or holds what earlier Gets of p1 and u1 put into it.     *)
(***************************************************************************)
InitCached ==
    /\ users = UsersInit
    /\ orders = OrdersInit
    /\ products = [id \in ProductIDs |->
                      CASE id = "p1" -> ProductDoc("p1", "Widget", 4, 1, FALSE)
                        [] id = "p2" -> ProductDoc("p2", "Old", 3, 0, TRUE)
                        [] OTHER -> NoRow]
    /\ req = [p \in Procs |-> IdleReq]
    /\ published = <<>>
    /\ creq = [p \in Procs |-> IdleCReq]
    /\ cacheErrors = 0
    /\ bus = NoBus
    /\ audit = NoAudit
    /\ \/ cache = EmptyCache
       \/ cache = CacheSet(CacheSet(CacheSet(CacheSet(EmptyCache,
                        productCacheKey("p1"), ProductRepoGetByID(products, "p1")),
                        nameCacheKey("Widget"), "p1"),
                        userCacheKey("u1"), UserRepoGetByID(users, "u1")),
                        emailCacheKey(EmailAB), "u1")

SpecCached == InitCached /\ [][NextCached]_vars

(***************************************************************************)
(* Properties of the order status state machine                            *)
(***************************************************************************)
PublishedBy(p) == SelectSeq(published, LAMBDA c : c.by = p)

TransitionTable ==
    {<<OrderStatusPending, OrderStatusConfirmed>>, <<OrderStatusPending, OrderStatusCancelled>>,
     <<OrderStatusConfirmed, OrderStatusShipped>>, <<OrderStatusConfirmed, OrderStatusCancelled>>,
     <<OrderStatusShipped, OrderStatusDelivered>>, <<OrderStatusShipped, OrderStatusCancelled>>}

\* request r is a status call that found its order
StatusCall(r) ==
    /\ r.op \in {"Order.UpdateStatus", "Order.Cancel"}
    /\ r.loaded # NoAgg

LegalCall(r) == StatusCall(r) /\ <<r.loaded.Status, r.args.status>> \in TransitionTable

IllegalCall(r) == StatusCall(r) /\ <<r.loaded.Status, r.args.status>> \notin TransitionTable

\* C1: a status call for a pair (from, to) outside the transition table
\* returns an error at once, invokes no repository write, publishes no event
\* and leaves the orders table as it was.
C1_IllegalTransitionRejected ==
    [][\A p \in Procs :
         IllegalCall(req'[p]) =>
            /\ req'[p].pc = "done"
            /\ req'[p].err # nil
            /\ req'[p].writes = 0
            /\ PublishedBy(p)' = <<>>
            /\ (req'[p] # req[p] => orders' = orders)]_vars

C1_Witness ==
    \E p \in Procs :
        /\ req[p].pc = "done"
        /\ IllegalCall(req[p])
        /\ req[p].loaded.Status = OrderStatusConfirmed
        /\ req[p].args.status = OrderStatusDelivered
        /\ orders[req[p].id].Status = OrderStatusConfirmed

\* the one event a legal status call is to publish
ExpectedStatusEvent(r) ==
    IF r.args.status = OrderStatusCancelled
    THEN NewBaseEvent("order.cancelled", r.id,
            [EventName |-> "order.cancelled", OrderID |-> r.id,
             OldStatus |-> r.loaded.Status])
    ELSE NewBaseEvent("order.status_changed", r.id,
            [EventName |-> "order.status_changed", OrderID |-> r.id,
             OldStatus |-> r.loaded.Status, NewStatus |-> r.args.status])

\* C2: a status call for a pair (from, to) of the transition table whose
\* store calls do not fail sets the stored status to `to` with its write,
\* returns nil and has then handed exactly one event to the bus, the
\* status-changed (or cancellation) event of that transition.
C2_LegalTransitionApplied ==
    [][\A p \in Procs :
         LegalCall(req'[p]) =>
            /\ (req[p].pc = "persist" /\ req'[p].pc = "publish"
                    => orders'[req[p].id].Status = req[p].args.status)
            /\ (req'[p].pc = "done" =>
                    \/ req'[p].err = StoreError /\ PublishedBy(p)' = <<>>
                    \/ /\ req'[p].err = nil
                       /\ req'[p].writes = 1
                       /\ Len(PublishedBy(p)') = 1
                       /\ PublishedBy(p)'[1].evt = ExpectedStatusEvent(req'[p]))]_vars

C2_Witness ==
    \E p \in Procs :
        /\ req[p].pc = "done"
        /\ LegalCall(req[p])
        /\ req[p].err = nil
        /\ req[p].op = "Order.Cancel"
        /\ req[p].loaded.Status = OrderStatusShipped
        /\ orders[req[p].id].Status = OrderStatusCancelled

\* C3: every change of a stored order status follows an edge of the
\* transition table, whatever the interleaving of the status calls.
C3_StoredStatusFollowsTable ==
    [][\A id \in OrderIDs :
         (orders[id].exists /\ orders'[id].exists /\ orders'[id].Status # orders[id].Status)
            => <<orders[id].Status, orders'[id].Status>> \in TransitionTable]_vars

(***************************************************************************)
(* Error kinds: a DomainError is classified by its machine-readable Code;  *)
(* the errors that carry a code of their own (USER_NOT_FOUND, EMAIL_TAKEN, *)
(* ...) are classified by the status they were declared with.              *)
(***************************************************************************)
GenericCodes == {CodeValidationError, CodeNotFound, CodeConflict, CodeInvalidState,
                 CodeInsufficientStock}

IsDomainError(e) == e # nil /\ e # StoreError

IsValidationError(e) == e.Code = CodeValidationError

IsInvalidStateError(e) == e.Code = CodeInvalidState

IsInsufficientResourceError(e) == e.Code = CodeInsufficientStock

IsConflictError(e) ==
    \/ e.Code = CodeConflict
    \/ IsDomainError(e) /\ e.Code \notin GenericCodes /\ e.HTTPStatus = StatusConflict

IsNotFoundError(e) ==
    \/ e.Code = CodeNotFound
    \/ IsDomainError(e) /\ e.Code \notin GenericCodes /\ e.HTTPStatus = StatusNotFound

\* C6: cancelling an order that is already canceled fails with a
\* ConflictError, which is not an InvalidStateError, and writes nothing.
C6_DoubleCancelIsConflict ==
    \A p \in Procs :
        (/\ req[p].pc = "done"
         /\ StatusCall(req[p])
         /\ req[p].loaded.Status = OrderStatusCancelled
         /\ req[p].args.status = OrderStatusCancelled)
        => /\ IsConflictError(req[p].err)
           /\ ~IsInvalidStateError(req[p].err)
           /\ req[p].writes = 0

(***************************************************************************)
(* Properties of the product stock                                         *)
(***************************************************************************)
\* C4: the stored stock of every product is never negative, whatever the
\* interleaving of Create, Update and UpdateStock calls.
C4_StockNeverNegative ==
    \A id \in ProductIDs : products[id].exists => products[id].Stock >= 0

\* C5: UpdateStock with currentStock + delta < 0 fails with an
\* InsufficientResourceError (not a validation error), invokes no repository
\* write and publishes no event.
C5_InsufficientStockRejected ==
    \A p \in Procs :
        (/\ req[p].pc = "done"
         /\ req[p].op = "Product.UpdateStock"
         /\ req[p].loaded # NoAgg
         /\ req[p].loaded.Stock + req[p].args.quantity < 0)
        => /\ IsInsufficientResourceError(req[p].err)
           /\ ~IsValidationError(req[p].err)
           /\ req[p].writes = 0
           /\ PublishedBy(p) = <<>>

(***************************************************************************)
(* Properties of user creation                                             *)
(***************************************************************************)
\* a stored, non-deleted user holds the email
EmailHeld(email) ==
    \E id \in UserIDs : users[id].exists /\ ~users[id].Deleted /\ users[id].Email = email

\* no stored row holds the email
EmailFresh(email) ==
    \A id \in UserIDs : users[id].exists => users[id].Email # email

ValidUserArgs(args) ==
    emailRegexMatches(args.email) /\ args.name # "" /\ args.password # ""

Inserted(r) == r.op = "User.Create" /\ r.pc \in {"publish", "done"} /\ r.writes = 1 /\ r.err = nil

\* C8: no two stored non-deleted users have the same email, and of the
\* Create calls with one email at most one succeeds, whatever the
\* interleaving of the lookups and the inserts.
C8_EmailUnique ==
    /\ \A a, b \in UserIDs :
          (/\ a # b
           /\ users[a].exists /\ ~users[a].Deleted
           /\ users[b].exists /\ ~users[b].Deleted)
          => users[a].Email # users[b].Email
    /\ \A p, q \in Procs :
          (p # q /\ Inserted(req[p]) /\ Inserted(req[q]))
          => req[p].args.email # req[q].args.email

\* two Create calls with one email both passed the lookup; one was inserted,
\* the other hit the unique index
C8_Witness ==
    \E p, q \in Procs :
        /\ req[p].op = "User.Create" /\ req[q].op = "User.Create"
        /\ req[p].args.email = req[q].args.email
        /\ Inserted(req[p]) /\ req[p].pc = "done"
        /\ req[q].pc = "done" /\ req[q].err = ErrDuplicatedKey

(***************************************************************************)
(* Properties of the three services: what a call publishes, and when       *)
(***************************************************************************)
Payloads(calls) == [i \in 1..Len(calls) |-> calls[i].evt.Payload]

IsPrefix(a, b) == Len(a) <= Len(b) /\ a = SubSeq(b, 1, Len(a))

\* C9: a call that succeeds has published exactly the events its aggregate
\* recorded during the call, each once and in the recorded order, under the
\* name of the event; at no time has a call published anything but a prefix
\* of its own recorded events, and nothing stays pending after the return.
C9_PublishesRecordedEvents ==
    \A p \in Procs :
        /\ IsPrefix(Payloads(PublishedBy(p)), req[p].recorded)
        /\ \A i \in 1..Len(PublishedBy(p)) :
              PublishedBy(p)[i].evt.EventName = req[p].recorded[i].EventName
        /\ (req[p].pc = "done" /\ req[p].err = nil) =>
              /\ req[p].recorded # <<>>
              /\ Payloads(PublishedBy(p)) = req[p].recorded
              /\ req[p].agg.events = <<>>

C9_Witness ==
    \E p, q \in Procs :
        /\ req[p].pc = "done" /\ req[p].err = nil /\ req[p].op = "Product.Create"
        /\ req[q].pc = "done" /\ req[q].err = nil /\ req[q].op = "Order.Cancel"
        /\ Len(published) = 2
        /\ PublishedBy(p)[1].evt.EventName = "product.created"
        /\ PublishedBy(q)[1].evt.EventName = "order.cancelled"

\* C10 as stated: a call that returns a validation, state or not-found error
\* has invoked no repository write and published no event, and a call whose
\* write fails returns the error of the write and publishes no event.
C10_ErrorsBeforePersist ==
    \A p \in Procs :
        req[p].pc = "done" =>
            /\ (\/ IsValidationError(req[p].err)
                \/ IsInvalidStateError(req[p].err)
                \/ IsNotFoundError(req[p].err))
               => req[p].writes = 0 /\ PublishedBy(p) = <<>>
            /\ req[p].werr # nil => req[p].err = req[p].werr /\ PublishedBy(p) = <<>>

\* C10 amended: validate, then persist, then publish.  A call that returns a
\* validation or state error has invoked no repository write and published
\* no event; so has a call that returns a not-found error, unless the error
\* is the one its repository write returned because the write matched no
\* live document.  A call whose write fails returns the error of the write
\* and publishes no event, and a call publishes only after its one write
\* has returned nil.
C10_ValidatePersistPublish ==
    \A p \in Procs :
        /\ req[p].pc = "done" =>
              /\ (IsValidationError(req[p].err) \/ IsInvalidStateError(req[p].err))
                 => req[p].writes = 0 /\ PublishedBy(p) = <<>>
              /\ IsNotFoundError(req[p].err)
                 => /\ PublishedBy(p) = <<>>
                    /\ req[p].writes = 0 \/ req[p].werr = req[p].err
              /\ req[p].werr # nil => req[p].err = req[p].werr /\ PublishedBy(p) = <<>>
        /\ req[p].writes <= 1
        /\ req[p].writes = 1 => req[p].recorded # <<>>
        /\ PublishedBy(p) # <<>> => req[p].writes = 1 /\ req[p].werr = nil

\* a write failed after the load had succeeded, and a validation error
C10_Witness ==
    \E p, q \in Procs :
        /\ req[p].pc = "done" /\ req[p].op = "Product.UpdateStock"
        /\ req[p].werr = ErrProductNotFound /\ req[p].writes = 1
        /\ req[q].pc = "done" /\ req[q].op = "Product.Delete" /\ req[q].err = nil
        /\ PublishedBy(p) = <<>>

(***************************************************************************)
(* Properties of a failing event bus                                       *)
(***************************************************************************)
Failed(calls) == SelectSeq(calls, LAMBDA c : c.err # nil)

\* C11: whatever Publish returns, publishEvents passes every pending event
\* to Publish, in order, the call returns nil, the step changes no store
\* and invokes no write, and the call does nothing after its return.
C11_PublishErrorIgnored ==
    [][\A p \in Procs :
         /\ (req[p].pc = "publish" /\ req'[p].pc # "publish") =>
               /\ req'[p].pc = "done"
               /\ req'[p].err = nil
               /\ req'[p].writes = req[p].writes
               /\ req'[p].ret = req[p].ret
               /\ <<users, products, orders>>' = <<users, products, orders>>
               /\ Payloads(PublishedBy(p))' = req[p].agg.events
               /\ Len(PublishedBy(p)') = Len(req[p].recorded)
         /\ req[p].pc = "done" => req'[p] = req[p] /\ PublishedBy(p)' = PublishedBy(p)]_vars

\* the first of two Publish calls failed, the second was still made, and
\* the stored order keeps the status the call had written
C11_Witness ==
    \E p \in Procs :
        /\ req[p].pc = "done" /\ req[p].err = nil /\ req[p].writes = 1
        /\ Len(PublishedBy(p)) = 2
        /\ PublishedBy(p)[1].err = BusError
        /\ PublishedBy(p)[2].evt.Payload = req[p].recorded[2]
        /\ orders[req[p].id].Status = req[p].args.status

(***************************************************************************)
(* Properties of the aggregates                                            *)
(***************************************************************************)
MutatorCall(r) ==
    /\ r.pc = "done"
    /\ r.op \in {"User.Update", "User.UpdatePassword", "User.MarkDeleted",
                 "Product.Update", "Product.UpdateStock", "Product.ReserveStock",
                 "Product.MarkDeleted"} \cup {"Order." \o st : st \in OrderStatuses}

\* the invariants of the aggregate the mutator was applied to
HoldsInvariants(r) ==
    /\ r.op \in {"User.Update", "User.UpdatePassword", "User.MarkDeleted"} =>
          r.agg.Name # ""
    /\ r.op \in {"Product.Update", "Product.UpdateStock", "Product.ReserveStock",
                 "Product.MarkDeleted"} =>
          r.agg.Name # "" /\ r.agg.Price > 0 /\ r.agg.Stock >= 0

\* C12: a mutator either returns nil, having applied its change and appended
\* exactly one event to the pending list, or returns an error and leaves
\* every field and the pending list as they were; the aggregate satisfies
\* its invariants afterwards.
C12_MutatorAppliesOrRejects ==
    \A p \in Procs :
        MutatorCall(req[p]) =>
            /\ \/ /\ req[p].err = nil
                  /\ Len(req[p].agg.events) = Len(req[p].loaded.events) + 1
                  /\ SubSeq(req[p].agg.events, 1, Len(req[p].loaded.events))
                        = req[p].loaded.events
               \/ /\ req[p].err # nil
                  /\ req[p].agg = req[p].loaded
            /\ HoldsInvariants(req[p])

(***************************************************************************)
(* Properties of the stored orders                                         *)
(***************************************************************************)
\* the value of the first n items: quantity times unit price, added up
RECURSIVE ValueOfFirst(_, _)
ValueOfFirst(items, n) ==
    IF n = 0 THEN 0
    ELSE ValueOfFirst(items, n - 1) + items[n].Quantity * items[n].Price

TotalMatchesItems(row) == row.Total = ValueOfFirst(row.Items, Len(row.Items))

BadItems(items) ==
    \/ items = <<>>
    \/ \E i \in 1..Len(items) : items[i].Quantity <= 0 \/ items[i].Price <= 0

\* C14: Create with an empty user ID, no items, or an item whose quantity or
\* unit price is not positive returns a ValidationError and no order, invokes
\* no repository write and publishes nothing; every stored order has at
\* least one item, and all its items have a positive quantity and price.
\* The service looks the user up before it calls the factory, so for a user
\* ID that names no user the not-found error of the lookup is accepted too.
C14_FactoryRejectsBadInput ==
    /\ \A p \in Procs :
          (/\ req[p].op = "Order.Create"
           /\ req[p].args.userID = "" \/ BadItems(req[p].args.items))
          => /\ req[p].pc = "done"
             /\ \/ IsValidationError(req[p].err)
                \/ /\ UserRepoGetByID(UsersInit, req[p].args.userID) = NoAgg
                   /\ req[p].err = ErrUserNotFound
             /\ req[p].ret = NoAgg
             /\ req[p].writes = 0
             /\ PublishedBy(p) = <<>>
    /\ \A id \in OrderIDs : orders[id].exists => ~BadItems(orders[id].Items)

(***************************************************************************)
(* Properties of deletion                                                  *)
(***************************************************************************)
DeleteSucceeded(r) == r.op \in {"User.Delete", "Product.Delete"} /\ r.pc = "done" /\ r.err = nil

\* a Delete of this user or product has succeeded
DeletedBefore(op, id) ==
    \E q \in Procs :
        /\ DeleteSucceeded(req[q]) /\ req[q].id = id
        /\ (req[q].op = "User.Delete") = (op \in {"User.Update", "User.Delete"})

\* C15: once Delete(id) has succeeded the record stays in the store with its
\* deletion marker, Get(id) returns nil and List leaves it out; the Delete
\* has published exactly one event, the deleted event; and an Update, Delete
\* or UpdateStock of id called afterwards returns a NotFoundError and
\* publishes nothing.
C15_DeleteIsFinal ==
    /\ [](\A p \in Procs :
            DeleteSucceeded(req[p]) =>
                /\ Len(PublishedBy(p)) = 1
                /\ PublishedBy(p)[1].evt.EventName \in {"user.deleted", "product.deleted"}
                /\ req[p].op = "User.Delete" =>
                      /\ users[req[p].id].exists /\ users[req[p].id].Deleted
                      /\ UserRepoGetByID(users, req[p].id) = NoAgg
                      /\ \A u \in UserRepoList(users) : u.ID # req[p].id
                /\ req[p].op = "Product.Delete" =>
                      /\ products[req[p].id].exists /\ products[req[p].id].Deleted
                      /\ ProductRepoGetByID(products, req[p].id) = NoAgg
                      /\ \A pr \in ProductRepoList(products) : pr.ID # req[p].id)
    /\ [][\A p \in Procs :
            (/\ req[p].pc = "idle"
             /\ req'[p].op \in {"User.Update", "User.Delete", "Product.Update",
                                "Product.Delete", "Product.UpdateStock"}
             /\ DeletedBefore(req'[p].op, req'[p].id))
            => /\ req'[p].pc = "done"
               /\ IsNotFoundError(req'[p].err)
               /\ PublishedBy(p)' = <<>>]_vars

(***************************************************************************)
(* The cache decorators                                                    *)
(***************************************************************************)
GetOps == {"Product.Get", "User.Get"}

CachedWriteOps ==
    {"Product.Create", "Product.Update", "Product.Delete", "Product.UpdateStock",
     "User.Create", "User.Update", "User.Delete"}

\* request p makes its Get call in this step
GetStep(p) == creq[p].cpc = "idle" /\ creq'[p].cpc # "idle" /\ creq'[p].op \in GetOps

\* the primary entry of the aggregate a request is about
EntryOf(r) == CacheEntry(cache, primaryKey(r.op, r.id))

\* the delegate's mutating call of request p has returned err
DelegateReturned(p) == creq[p].op \in CachedWriteOps /\ req[p].pc = "done"

\* a successful Update, Delete or UpdateStock of the aggregate has returned
WrittenBefore(op, id) ==
    \E p \in Procs :
        /\ creq[p].cpc = "done"
        /\ creq[p].err = nil
        /\ creq[p].id = id
        /\ creq[p].op \in CachedWriteOps \ {"Product.Create", "User.Create"}
        /\ (creq[p].op \in ProductOps) = (op \in ProductOps)

\* C16: through the decorator, a Get(id) called after an Update, Delete or
\* UpdateStock of id has succeeded does not return the entry cached before
\* the write: what it returns from the cache is the store's current
\* aggregate.
C16_GetAfterWriteIsFresh ==
    [][\A p \in Procs :
          (GetStep(p) /\ WrittenBefore(creq'[p].op, creq'[p].id) /\ creq'[p].cpc = "done")
          => creq'[p].ret = delegateGet(creq'[p].op, creq'[p].id)]_vars

\* C17 as stated: once the primary entry of id is populated, every Get(id)
\* returns the aggregate of the entry and makes no call to the delegate.
C17_HitWithoutDelegate ==
    [][\A p \in Procs :
          (GetStep(p) /\ EntryOf(creq'[p]).hit)
          => /\ creq'[p].cpc = "done"
             /\ creq'[p].ret = EntryOf(creq'[p]).val
             /\ creq'[p].reads = 0]_vars

\* C17 amended: a primary entry is populated with the fields of the
\* aggregate a Get or Create of the decorator returns; a Get(id) whose cache
\* read succeeds while the entry is there returns the aggregate of the entry
\* without an error, calls the delegate zero times and leaves the cache as
\* it is; a Get(id) whose cache read fails asks the delegate.
C17_HitWhenReadSucceeds ==
    /\ [][\A p \in Procs :
            (GetStep(p) /\ EntryOf(creq'[p]).hit)
            => IF cacheErrors' = cacheErrors
               THEN /\ creq'[p].cpc = "done"
                    /\ creq'[p].ret = EntryOf(creq'[p]).val
                    /\ creq'[p].err = nil
                    /\ creq'[p].reads = 0
                    /\ cache' = cache
               ELSE creq'[p].cpc = "read"]_vars
    /\ [][\A id \in ProductIDs \cup UserIDs : \A k \in {productCacheKey(id), userCacheKey(id)} :
            (CacheEntry(cache', k) # CacheEntry(cache, k) /\ CacheEntry(cache', k).hit)
            => \E p \in Procs :
                  /\ creq[p].cpc = "set"
                  /\ creq[p].ret.ID = id
                  /\ creq[p].ret = [cache'[k] EXCEPT !.events = creq[p].ret.events]
                  /\ cache'[k].events = <<>>]_vars

\* C17 witness: a Get has returned from the cache, without a call of the
\* delegate, the aggregate that another request of this run has put there.
C17_Witness ==
    \E p, q \in Procs :
        /\ p # q
        /\ creq[p].op \in GetOps
        /\ creq[p].cpc = "done"
        /\ creq[p].reads = 0
        /\ creq[q].op \in GetOps \cup {"Product.Create", "User.Create"}
        /\ creq[q].cpc = "done"
        /\ creq[q].cacheWrites = 2
        /\ creq[q].cacheFailed = 0
        /\ creq[q].ret # NoAgg
        /\ creq[q].ret.ID = creq[p].id
        /\ creq[p].ret = Serialized(creq[q].ret)

\* C18: in a state where no decorator operation is in flight and no cache
\* call has failed, a primary cache entry that is present equals the store's
\* current non-deleted aggregate of that id.
C18_QuiescentCacheMatchesStore ==
    ((\A p \in Procs : creq[p].cpc \in {"idle", "done"}) /\ cacheErrors = 0)
    => /\ \A id \in ProductIDs :
            productCacheKey(id) \in DOMAIN cache =>
                /\ ProductRepoGetByID(products, id) # NoAgg
                /\ cache[productCacheKey(id)] = ProductRepoGetByID(products, id)
       /\ \A id \in UserIDs :
            userCacheKey(id) \in DOMAIN cache =>
                /\ UserRepoGetByID(users, id) # NoAgg
                /\ cache[userCacheKey(id)] = UserRepoGetByID(users, id)

\* C19: whatever cache calls fail, a decorator operation whose delegate call
\* succeeded returns the delegate's result and no error; a Get whose cache
\* read fails asks the delegate and returns what the delegate returns.
C19_CacheFailuresIgnored ==
    /\ [](\A p \in Procs :
            /\ (DelegateReturned(p) /\ req[p].err = nil /\ creq[p].cpc # "delegate")
               => creq[p].err = nil /\ creq[p].ret = req[p].ret
            /\ creq[p].op \in GetOps => creq[p].err = nil)
    /\ [][\A p \in Procs :
            /\ (GetStep(p) /\ cacheErrors' > cacheErrors) => creq'[p].cpc = "read"
            /\ creq[p].cpc = "read"
               => (creq'[p].cpc = "read"
                   \/ creq'[p].ret = delegateGet(creq[p].op, creq[p].id))
            /\ (creq[p].op \in GetOps /\ creq[p].cpc \in {"set", "setkey"})
               => creq'[p].ret = creq[p].ret /\ creq'[p].cpc # "read"]_vars

\* C19 witness: an Update whose delegate call succeeded has returned the
\* updated aggregate after one of its cache calls failed.
C19_Witness ==
    \E p \in Procs :
        /\ DelegateReturned(p)
        /\ creq[p].op \in {"Product.Update", "User.Update"}
        /\ req[p].err = nil
        /\ creq[p].cpc = "done"
        /\ creq[p].cacheFailed > 0
        /\ creq[p].ret # NoAgg

\* C20: when the delegate's mutating call returns an error the decorator
\* returns that error and has made no cache set or delete call; the cache
\* calls of a write are made only after the delegate's call has succeeded.
C20_NoCacheWriteOnDelegateError ==
    /\ [](\A p \in Procs :
            /\ (DelegateReturned(p) /\ req[p].err # nil /\ creq[p].cpc # "delegate")
               => /\ creq[p].cpc = "done"
                  /\ creq[p].err = req[p].err
                  /\ creq[p].cacheWrites = 0
            /\ (creq[p].op \in CachedWriteOps
                /\ (creq[p].cacheWrites > 0 \/ creq[p].cpc \in {"inv", "invkey", "set", "setkey"}))
               => req[p].pc = "done" /\ req[p].err = nil)
    /\ [][\A p \in Procs :
            (creq[p].op \in CachedWriteOps /\ creq[p].cpc \in {"call", "delegate"})
            => cache' = cache \/ \E q \in Procs \ {p} : creq'[q].cacheWrites > creq[q].cacheWrites]_vars

\* C20 witness: a write through the decorator has returned the error of its
\* delegate while the cache holds an entry of that aggregate.
C20_Witness ==
    \E p \in Procs :
        /\ DelegateReturned(p)
        /\ req[p].err # nil
        /\ creq[p].cpc = "done"
        /\ creq[p].id # NoID
        /\ EntryOf(creq[p]).hit

(***************************************************************************)
(* The aggregate ID of a published event                                   *)
(***************************************************************************)
CreateOps == {"User.Create", "Product.Create", "Order.Create"}

\* the ID under which the aggregate of a call is stored: the ID of the
\* aggregate Create returns, and the ID argument of every other call
StoredID(r) == IF r.op \in CreateOps THEN r.ret.ID ELSE r.id

\* C22: every event a service hands to the bus carries, as its aggregate
\* ID, the ID under which the aggregate of the call is stored and which a
\* Create returns to the caller.
C22_EventCarriesStoredID ==
    \A i \in 1..Len(published) :
        published[i].evt.AggregateID = StoredID(req[published[i].by])

(***************************************************************************)
(* ProductService.Create                                                   *)
(***************************************************************************)
ValidProductArgs(args) == args.name # "" /\ args.price > 0 /\ args.stock >= 0

\* C23: a ProductService.Create with a non-empty name, a price > 0 and a
\* stock >= 0 whose insert does not fail returns a product with exactly the
\* given price and stock, stored under the returned ID, and has handed
\* exactly one event to the bus, product.created with those values; with an
\* empty name, a price <= 0 or a stock < 0 it returns a ValidationError, has
\* made no write, has stored no product and has published nothing.
C23_CreateProduct ==
    \A p \in Procs :
        (req[p].op = "Product.Create" /\ req[p].pc = "done") =>
            IF ValidProductArgs(req[p].args)
            THEN \/ /\ req[p].err = StoreError
                    /\ ~products[NewID(p)].exists
                    /\ PublishedBy(p) = <<>>
                 \/ /\ req[p].err = nil
                    /\ req[p].ret.Name = req[p].args.name
                    /\ req[p].ret.Price = req[p].args.price
                    /\ req[p].ret.Stock = req[p].args.stock
                    /\ products[req[p].ret.ID].exists
                    /\ productToModel(products[req[p].ret.ID]) = req[p].ret
                    /\ Len(PublishedBy(p)) = 1
                    /\ PublishedBy(p)[1].evt.Payload =
                          ProductCreatedEvent(req[p].args.name, req[p].args.price,
                                              req[p].args.stock)
                    /\ PublishedBy(p)[1].evt.EventName = "product.created"
            ELSE /\ IsValidationError(req[p].err)
                 /\ req[p].ret = NoAgg
                 /\ req[p].writes = 0
                 /\ ~products[NewID(p)].exists
                 /\ PublishedBy(p) = <<>>

\* C23 witness: one Create has returned its product with stock 0, and one
\* Create with stock -1 has returned its error.
C23_Witness ==
    \E p, q \in Procs :
        /\ req[p].op = "Product.Create" /\ req[p].pc = "done" /\ req[p].err = nil
        /\ req[p].args.stock = 0
        /\ req[p].ret.Stock = 0
        /\ req[q].op = "Product.Create" /\ req[q].pc = "done"
        /\ req[q].args.name # "" /\ req[q].args.price > 0 /\ req[q].args.stock = 0 - 1
        /\ req[q].err = ErrProductStockNegative

(***************************************************************************)
(* Paging.  The List operations of the services hand their offset and      *)
(* limit to the repository; ListUsersUseCase validates its input first.    *)
(***************************************************************************)
DefaultLimit == 10

OffsetArgs == {-1, 0, 1}

LimitArgs == {-1, 0, 1}

ListOps == {"User.List", "Product.List", "Order.List", "Order.GetByUserID"}

\* ListUsersInput.Validate: a limit that is not positive becomes the default
\* and a negative offset becomes 0; it returns no error
ListUsersInputValidate(in) ==
    [offset |-> IF in.offset < 0 THEN 0 ELSE in.offset,
     limit  |-> IF in.limit <= 0 THEN DefaultLimit ELSE in.limit]

\* the repository List with the paging it was given
RepoListCalled(r, in, err) == Return([r EXCEPT !.query = <<in.offset, in.limit>>], err)

\* UserService.List, ProductService.List, OrderService.List and
\* OrderService.GetByUserID: the repository is called with the arguments of
\* the call
ServiceList(p) ==
    /\ req[p].pc = "idle"
    /\ \E op \in ListOps, offset \in OffsetArgs, limit \in LimitArgs, err \in {nil, StoreError} :
         LET args == [NoArgs EXCEPT !.offset = offset, !.limit = limit,
                                    !.userID = IF op = "Order.GetByUserID" THEN "u1" ELSE ""]
         IN req' = [req EXCEPT ![p] = RepoListCalled(Call(p, op, NoID, args), args, err)]
    /\ UNCHANGED <<users, products, orders, published>>

\* ListUsersUseCase.Execute: Validate, then UserService.List with the
\* validated offset and limit
ListUsersExecute(p) ==
    /\ req[p].pc = "idle"
    /\ \E offset \in OffsetArgs, limit \in LimitArgs, err \in {nil, StoreError} :
         LET args == [NoArgs EXCEPT !.offset = offset, !.limit = limit]
         IN req' = [req EXCEPT ![p] = RepoListCalled(Call(p, "ListUsers.Execute", NoID, args),
                                                     ListUsersInputValidate(args), err)]
    /\ UNCHANGED <<users, products, orders, published>>

NextList ==
    /\ \E p \in Procs : ServiceList(p) \/ ListUsersExecute(p)
    /\ UNCHANGED <<cvars, bus, audit>>

SpecList == InitUser /\ [][NextList]_vars

Clamped(offset, limit) ==
    <<IF offset > 0 THEN offset ELSE 0, IF limit > 0 THEN limit ELSE 10>>

\* C26: for every (offset, limit) given to a List operation, the repository
\* is queried with offset' = max(offset, 0) and limit' = limit when limit > 0
\* and 10 otherwise
C26_ListClampsPaging ==
    \A p \in Procs :
        req[p].pc = "done" /\ req[p].query # <<>>
            => req[p].query = Clamped(req[p].args.offset, req[p].args.limit)

\* C28: no two stored products that are not deleted and were created through
\* ProductService.Create share a name: a Create with a name a stored product
\* holds returns a conflict and stores nothing
C28_CreatedNamesUnique ==
    \A p, q \in Procs :
        /\ p # q
        /\ req[p].op = "Product.Create" /\ req[p].pc = "done" /\ req[p].err = nil
        /\ req[q].op = "Product.Create" /\ req[q].pc = "done" /\ req[q].err = nil
        /\ ProductMatches(products, req[p].ret.ID)
        /\ ProductMatches(products, req[q].ret.ID)
        => products[req[p].ret.ID].Name # products[req[q].ret.ID].Name

CancelCall(r, id) ==
    /\ r.op \in {"Order.UpdateStatus", "Order.Cancel"}
    /\ r.args.status = OrderStatusCancelled
    /\ r.id = id

CancelledEvents(id) ==
    SelectSeq(published, LAMBDA c : /\ c.evt.EventName = "order.cancelled"
                                    /\ c.evt.AggregateID = id)

\* C25: of the Cancel and UpdateStatus(canceled) calls on one order, in any
\* interleaving, at most one returns without an error and at most one
\* order.cancelled event is published for the order
C25_AtMostOneCancelSucceeds ==
    \A id \in OrderIDs :
        /\ Cardinality({p \in Procs : /\ CancelCall(req[p], id)
                                      /\ req[p].pc = "done"
                                      /\ req[p].err = nil}) <= 1
        /\ Len(CancelledEvents(id)) <= 1

(***************************************************************************)
(* Draining.  One aggregate is held, mutated and drained with Events();    *)
(* recorded keeps every event the aggregate ever held, in order.           *)
(***************************************************************************)
HeldAggregates ==
    [User    |-> UserAggregates,
     Product |-> ProductAggregates,
     Order   |-> OrderAggregates]

\* the results of the mutators of the aggregate's model
Mutations(kind, agg) ==
    CASE kind = "User" ->
           {UserUpdate(agg, name) : name \in {"", "C"}}
             \cup {Result(UserMarkDeleted(agg), nil)}
      [] kind = "Product" ->
           {ProductUpdateStock(agg, quantity) : quantity \in {-1, 1}}
             \cup {Result(ProductMarkDeleted(agg), nil)}
      [] kind = "Order" ->
           {ApplyStatus(agg, status) : status \in {OrderStatusConfirmed, OrderStatusCancelled}}

OthersIdle(p) == \A q \in Procs \ {p} : req[q].pc = "idle"

Hold(p) ==
    /\ req[p].pc = "idle"
    /\ OthersIdle(p)
    /\ \E kind \in DOMAIN HeldAggregates :
         \E agg \in HeldAggregates[kind] :
           req' = [req EXCEPT ![p] = [@ EXCEPT !.pc = "held", !.op = kind, !.agg = agg,
                                               !.recorded = agg.events]]
    /\ UNCHANGED <<users, products, orders, published>>

HeldMutate(p) ==
    /\ req[p].pc \in {"held", "drained"}
    /\ Len(req[p].recorded) <= MaxEvents
    /\ \E result \in Mutations(req[p].op, req[p].agg) :
         LET pending == Len(req[p].agg.events)
             new     == SubSeq(result.agg.events, pending + 1, Len(result.agg.events))
         IN  req' = [req EXCEPT ![p] = [@ EXCEPT !.pc = "held", !.agg = result.agg,
                                                 !.err = result.err,
                                                 !.recorded = req[p].recorded \o new]]
    /\ UNCHANGED <<users, products, orders, published>>

HeldEvents(p) ==
    /\ req[p].pc \in {"held", "drained"}
    /\ Len(req[p].drains) <= MaxEvents
    /\ LET drained == Events(req[p].agg)
       IN  req' = [req EXCEPT ![p] = [@ EXCEPT !.pc = "drained", !.agg = drained.agg,
                                               !.drains = Append(req[p].drains, drained.events)]]
    /\ UNCHANGED <<users, products, orders, published>>

NextDrain ==
    /\ \E p \in Procs : Hold(p) \/ HeldMutate(p) \/ HeldEvents(p)
    /\ UNCHANGED <<cvars, bus, audit>>

SpecDrain == InitMutators /\ [][NextDrain]_vars

RECURSIVE Flattened(_)
Flattened(seqs) == IF seqs = <<>> THEN <<>> ELSE Head(seqs) \o Flattened(Tail(seqs))

\* C24: Events() on a User, Product or Order returns all pending events in
\* the order they were recorded and leaves the pending list empty, so an
\* Events() right after it returns nothing; what the drains returned, put
\* together and followed by what is still pending, is the list of the events
\* the aggregate recorded: no event is returned by two drains
C24_DrainReadsAndClears ==
    [][\A p \in Procs :
          /\ Len(req'[p].drains) = Len(req[p].drains) + 1
                => /\ req'[p].drains[Len(req'[p].drains)] = req[p].agg.events
                   /\ req'[p].agg.events = <<>>
                   /\ (req[p].pc = "drained" => req'[p].drains[Len(req'[p].drains)] = <<>>)
          /\ Flattened(req'[p].drains) \o req'[p].agg.events = req'[p].recorded]_vars

\* an aggregate was drained of its events, drained again at once, then
\* recorded another event, which the third drain returned alone
C24_Witness ==
    \E p \in Procs :
        /\ Len(req[p].drains) = 3
        /\ Len(req[p].drains[1]) = 2
        /\ req[p].drains[2] = <<>>
        /\ Len(req[p].drains[3]) = 1
        /\ req[p].recorded = req[p].drains[1] \o req[p].drains[3]

(***************************************************************************)
(* Repository operations called with a transaction.  A transaction is nil, *)
(* one whose GetTx() is a *gorm.DB, or one whose GetTx() is the handle of   *)
(* another store.                                                          *)
(***************************************************************************)
Transactions == {"nil", "gorm", "other"}

\* getDB: the handle of the transaction when it is a *gorm.DB, else r.db
getDB(tx) ==
    IF tx # "nil"
    THEN IF tx = "gorm" THEN "tx" ELSE "default"
    ELSE "default"

OnConnection(r, conn) == [r EXCEPT !.conn = conn]

\* UserRepository.Create(ctx, tx, user); a statement on the handle of a
\* transaction is taken together with the commit of its owner
UserRepositoryCreate(p) ==
    /\ req[p].pc = "idle"
    /\ \E tx \in Transactions, email \in {EmailAB, EmailCD} :
         LET user    == NewUser(NewID(p), email, "A", "h").agg
             r       == OnConnection(Call(p, "UserRepository.Create", NoID,
                                          [NoArgs EXCEPT !.tx = tx, !.email = email]),
                                     getDB(tx))
             created == UserRepoCreate(users, user)
         IN  /\ users' = created.rows
             /\ req' = [req EXCEPT ![p] =
                          IF created.err # nil THEN PersistFailed(r, created.err)
                          ELSE Return([r EXCEPT !.ret = userToModel(toUserEntity(user)),
                                                !.writes = @ + 1], nil)]
    /\ UNCHANGED <<products, orders, published>>

\* UserRepository.GetByID(ctx, tx, id)
UserRepositoryGetByID(p) ==
    /\ req[p].pc = "idle"
    /\ \E tx \in Transactions, id \in UserIDs :
         LET r == OnConnection(Call(p, "UserRepository.GetByID", id, [NoArgs EXCEPT !.tx = tx]),
                               getDB(tx))
         IN  req' = [req EXCEPT ![p] =
                       Return([r EXCEPT !.loaded = UserRepoGetByID(users, id),
                                        !.ret = UserRepoGetByID(users, id)], nil)]
    /\ UNCHANGED <<users, products, orders, published>>

NextTx ==
    /\ \E p \in Procs : UserRepositoryCreate(p) \/ UserRepositoryGetByID(p)
    /\ UNCHANGED <<cvars, bus, audit>>

SpecTx == InitUser /\ [][NextTx]_vars

\* C27: a repository operation given a transaction whose handle is not of the
\* repository's store returns an error and runs nothing on the default
\* connection; given nil it runs on the default connection
C27_ForeignTransactionRejected ==
    \A p \in Procs :
        req[p].pc = "done" /\ req[p].op \in {"UserRepository.Create", "UserRepository.GetByID"}
            => /\ req[p].args.tx = "other"
                    => /\ req[p].err # nil
                       /\ req[p].conn # "default"
                       /\ req[p].writes = 0
                       /\ req[p].loaded = NoAgg
               /\ req[p].args.tx = "nil" => req[p].conn = "default"

(***************************************************************************)
(* Event bus.  Handlers are subscribed while the application is wired;     *)
(* Publish then offers the event to the handlers, in the order of their    *)
(* registration.  The handlers are the logging handler, the audit handler  *)
(* and a handler interested in the events of orders only.                  *)
(***************************************************************************)
Handlers == {"logging", "audit", "orders"}

EventIDs == {"e1", "e2"}

EmittedNames ==
    {"user.created", "user.updated", "user.deleted",
     "product.created", "product.updated", "product.deleted", "product.stock_updated",
     "order.created", "order.status_changed", "order.cancelled"}

SendError == [Code |-> "send", HTTPStatus |-> 0]

HandlerError == [Code |-> "handler", HTTPStatus |-> 0]

\* an event as the bus sees it: a BaseEvent with its ID
BusEvent(id, name, aggregateID) ==
    [ID |-> id] @@ NewBaseEvent(name, aggregateID, [EventName |-> name])

\* LoggingEventHandler.InterestedIn
LoggingInterestedIn(eventName) == TRUE

\* KafkaAuditHandler.InterestedIn
AuditInterestedIn(eventName) == TRUE

OrdersInterestedIn(eventName) ==
    eventName \in {"order.created", "order.status_changed", "order.cancelled"}

InterestedIn(h, eventName) ==
    CASE h = "logging" -> LoggingInterestedIn(eventName)
      [] h = "audit"   -> AuditInterestedIn(eventName)
      [] h = "orders"  -> OrdersInterestedIn(eventName)

\* parseEventName with no case for the order events
parseEventNameNoOrders(eventName) ==
    CASE eventName = "user.created"          -> <<"user", "created">>
      [] eventName = "user.updated"          -> <<"user", "updated">>
      [] eventName = "user.deleted"          -> <<"user", "deleted">>
      [] eventName = "product.created"       -> <<"product", "created">>
      [] eventName = "product.updated"       -> <<"product", "updated">>
      [] eventName = "product.deleted"       -> <<"product", "deleted">>
      [] eventName = "product.stock_updated" -> <<"product", "stock_updated">>
      [] OTHER                               -> <<"unknown", "unknown">>

parseEventName(eventName) ==
    CASE eventName = "user.created"          -> <<"user", "created">>
      [] eventName = "user.updated"          -> <<"user", "updated">>
      [] eventName = "user.deleted"          -> <<"user", "deleted">>
      [] eventName = "product.created"       -> <<"product", "created">>
      [] eventName = "product.updated"       -> <<"product", "updated">>
      [] eventName = "product.deleted"       -> <<"product", "deleted">>
      [] eventName = "product.stock_updated" -> <<"product", "stock_updated">>
      [] eventName = "order.created"         -> <<"order", "created">>
      [] eventName = "order.status_changed"  -> <<"order", "status_changed">>
      [] eventName = "order.cancelled"       -> <<"order", "canceled">>
      [] OTHER                               -> <<"unknown", "unknown">>

\* the payload of a service's event is a struct, not a map: the default
extractPayload(evt) == [event_name |-> evt.EventName, aggregate_id |-> evt.AggregateID]

AuditMessage(evt) ==
    [ID         |-> evt.ID,
     EventName  |-> evt.EventName,
     EntityType |-> parseEventName(evt.EventName)[1],
     EntityID   |-> evt.AggregateID,
     Action     |-> parseEventName(evt.EventName)[2],
     Payload    |-> extractPayload(evt)]

\* what a call of a handler did: the messages it sent and the error it returned
Handled(h, sent, err) == [handler |-> h, sent |-> sent, err |-> err]

\* KafkaAuditHandler.HandleEvent: one SendMessage keyed by the event ID,
\* whose error is returned
AuditHandleEvent(evt, sendErr) ==
    Handled("audit", <<[key |-> evt.ID, value |-> AuditMessage(evt), err |-> sendErr]>>, sendErr)

\* LoggingEventHandler.HandleEvent logs and returns nil
LoggingHandleEvent(evt) == Handled("logging", <<>>, nil)

\* the outcomes of HandleEvent of handler h
HandleEvent(h, evt) ==
    CASE h = "logging" -> {LoggingHandleEvent(evt)}
      [] h = "audit"   -> {AuditHandleEvent(evt, err) : err \in {nil, SendError}}
      [] h = "orders"  -> {Handled("orders", <<>>, err) : err \in {nil, HandlerError}}

IdleBusCall == [pc |-> "idle", evt |-> BusEvent("", "", ""), next |-> 1,
                handled |-> <<>>, ret |-> nil]

BusCall(p) == IF p \in DOMAIN bus.calls THEN bus.calls[p] ELSE IdleBusCall

NoPublishRunning == \A p \in Procs : BusCall(p).pc # "dispatch"

NothingPublished == \A p \in Procs : BusCall(p).pc = "idle"

BusCalls(p, call) == [q \in DOMAIN bus.calls \cup {p} |-> IF q = p THEN call ELSE bus.calls[q]]

\* Subscribe appends the handler; the wiring subscribes a handler once,
\* before anything is published
Subscribe(h) ==
    /\ NothingPublished
    /\ \A i \in 1..Len(bus.handlers) : bus.handlers[i] # h
    /\ bus' = [bus EXCEPT !.handlers = Append(@, h)]

\* Publish is called with an event; the calls are taken one after the other
Publish(p) ==
    /\ BusCall(p).pc = "idle"
    /\ NoPublishRunning
    /\ \E id \in EventIDs, name \in {"user.created", "order.cancelled"} :
         bus' = [bus EXCEPT !.calls =
                    BusCalls(p, [IdleBusCall EXCEPT !.pc = "dispatch",
                                                    !.evt = BusEvent(id, name, "a1")])]

\* Publish stopping at the first handler that returns an error
DispatchUntilError(p) ==
    /\ BusCall(p).pc = "dispatch"
    /\ LET call == BusCall(p)
       IN  IF call.next > Len(bus.handlers)
              \/ (call.handled # <<>> /\ call.handled[Len(call.handled)].err # nil)
           THEN bus' = [bus EXCEPT !.calls = BusCalls(p, [call EXCEPT !.pc = "done", !.ret = nil])]
           ELSE LET h == bus.handlers[call.next]
                IN  IF InterestedIn(h, call.evt.EventName)
                    THEN \E result \in HandleEvent(h, call.evt) :
                           bus' = [bus EXCEPT !.calls =
                                      BusCalls(p, [call EXCEPT !.next = @ + 1,
                                                               !.handled = Append(@, result)])]
                    ELSE bus' = [bus EXCEPT !.calls = BusCalls(p, [call EXCEPT !.next = @ + 1])]

\* Publish looks at the next handler: one that is interested in the event's
\* name handles it, and its error is logged; after the last handler Publish
\* returns nil
Dispatch(p) ==
    /\ BusCall(p).pc = "dispatch"
    /\ LET call == BusCall(p)
       IN  IF call.next > Len(bus.handlers)
           THEN bus' = [bus EXCEPT !.calls = BusCalls(p, [call EXCEPT !.pc = "done", !.ret = nil])]
           ELSE LET h == bus.handlers[call.next]
                IN  IF InterestedIn(h, call.evt.EventName)
                    THEN \E result \in HandleEvent(h, call.evt) :
                           bus' = [bus EXCEPT !.calls =
                                      BusCalls(p, [call EXCEPT !.next = @ + 1,
                                                               !.handled = Append(@, result)])]
                    ELSE bus' = [bus EXCEPT !.calls = BusCalls(p, [call EXCEPT !.next = @ + 1])]

NextBus ==
    /\ \/ \E h \in Handlers : Subscribe(h)
       \/ \E p \in Procs : Publish(p) \/ Dispatch(p)
    /\ UNCHANGED <<users, products, orders, req, published, cvars, audit>>

SpecBus == InitUser /\ [][NextBus]_vars

HandledBy(call) == [i \in 1..Len(call.handled) |-> call.handled[i].handler]

\* C29: a Publish that has returned has invoked the subscribed handlers that
\* are interested in the event's name, each once and in the order of their
\* registration, whatever the handlers before them returned, and no other
\* handler; it has returned nil
C29_PublishDispatch ==
    \A p \in Procs :
        BusCall(p).pc = "done"
            => /\ HandledBy(BusCall(p)) =
                    SelectSeq(bus.handlers,
                              LAMBDA h : InterestedIn(h, BusCall(p).evt.EventName))
               /\ BusCall(p).ret = nil

\* the audit handler failed on order.cancelled and the two handlers
\* registered after it were invoked all the same; another Publish, of
\* user.created, passed over the handler of the order events
C29_Witness ==
    \E p, q \in Procs :
        /\ bus.handlers = <<"audit", "orders", "logging">>
        /\ BusCall(p).pc = "done"
        /\ BusCall(p).evt.EventName = "order.cancelled"
        /\ BusCall(p).handled[1].err = SendError
        /\ HandledBy(BusCall(p)) = <<"audit", "orders", "logging">>
        /\ BusCall(q).pc = "done"
        /\ BusCall(q).evt.EventName = "user.created"
        /\ HandledBy(BusCall(q)) = <<"audit", "logging">>

\* the audit handler is handed an event an aggregate emits
AuditHandle(p) ==
    /\ BusCall(p).pc = "idle"
    /\ \E id \in EventIDs, name \in EmittedNames :
         \E result \in HandleEvent("audit", BusEvent(id, name, "a1")) :
           bus' = [bus EXCEPT !.calls =
                      BusCalls(p, [IdleBusCall EXCEPT !.pc = "done",
                                                      !.evt = BusEvent(id, name, "a1"),
                                                      !.next = 2,
                                                      !.handled = <<result>>,
                                                      !.ret = result.err])]

NextAudit ==
    /\ \E p \in Procs : AuditHandle(p)
    /\ UNCHANGED <<users, products, orders, req, published, cvars, audit>>

SpecAudit == InitUser /\ [][NextAudit]_vars

EntityOf(name) ==
    CASE name \in {"user.created", "user.updated", "user.deleted"} -> "user"
      [] name \in {"product.created", "product.updated", "product.deleted",
                   "product.stock_updated"} -> "product"
      [] name \in {"order.created", "order.status_changed", "order.cancelled"} -> "order"

\* C30: the audit handler is interested in every event name; for an event it
\* handled it sent one message, keyed by the event's ID, whose id, event
\* name and entity ID are the event's ID, name and aggregate ID, whose entity
\* type is the one of the name and whose action is not "unknown"; it
\* returned the error of the send
C30_AuditMessage ==
    /\ \A name \in EmittedNames : InterestedIn("audit", name)
    /\ \A p \in Procs :
         \A i \in 1..Len(BusCall(p).handled) :
           LET evt    == BusCall(p).evt
               result == BusCall(p).handled[i]
           IN  result.handler = "audit"
                 => /\ Len(result.sent) = 1
                    /\ result.sent[1].key = evt.ID
                    /\ result.sent[1].value.ID = evt.ID
                    /\ result.sent[1].value.EventName = evt.EventName
                    /\ result.sent[1].value.EntityID = evt.AggregateID
                    /\ result.sent[1].value.EntityType = EntityOf(evt.EventName)
                    /\ result.sent[1].value.Action # "unknown"
                    /\ result.err = result.sent[1].err

\* order.cancelled was handled with a send that failed, and
\* product.stock_updated with one that did not
C30_Witness ==
    \E p, q \in Procs :
        /\ BusCall(p).pc = "done"
        /\ BusCall(p).evt.EventName = "order.cancelled"
        /\ BusCall(p).handled[1].sent[1].value.EntityType = "order"
        /\ BusCall(p).ret = SendError
        /\ BusCall(q).pc = "done"
        /\ BusCall(q).evt.EventName = "product.stock_updated"
        /\ BusCall(q).handled[1].sent[1].value.Action = "stock_updated"
        /\ BusCall(q).ret = nil

(***************************************************************************)
(* The lookups by name and by email and List through the decorators, and   *)
(* the decorators called by one request after the other.                   *)
(***************************************************************************)
KeyCalls ==
    {[op |-> "Product.GetByName", args |-> [NoArgs EXCEPT !.name = n]] : n \in {"Widget", "Gadget"}}
    \cup {[op |-> "User.GetByEmail", args |-> [NoArgs EXCEPT !.email = EmailAB]]}

\* nameCacheKey(name), emailCacheKey(email)
lookupKey(r) ==
    IF r.op = "Product.GetByName" THEN nameCacheKey(r.args.name)
    ELSE emailCacheKey(r.args.email)

\* productCacheKey(product.ID), userCacheKey(user.ID)
entryKey(r, id) ==
    IF r.op = "Product.GetByName" THEN productCacheKey(id) ELSE userCacheKey(id)

\* nameCacheKey(product.Name), emailCacheKey(user.Email)
mappingKey(r) ==
    IF r.op = "Product.GetByName" THEN nameCacheKey(r.ret.Name)
    ELSE emailCacheKey(r.ret.Email)

\* s.delegate.GetByName, s.delegate.GetByEmail: FindOne gives one of the
\* documents that match
delegateGetByKey(r) ==
    IF r.op = "Product.GetByName"
    THEN LET found == {id \in DOMAIN products :
                         ProductMatches(products, id) /\ products[id].Name = r.args.name}
         IN  IF found = {} THEN {NoAgg} ELSE {productToModel(products[id]) : id \in found}
    ELSE {UserRepoGetByEmail(users, r.args.email)}

\* s.Get(ctx, productID) asks s.delegate.Get
delegateGetOfKey(r) ==
    IF r.op = "Product.GetByName" THEN ProductRepoGetByID(products, r.id)
    ELSE UserRepoGetByID(users, r.id)

\* GetByName, GetByEmail: the mapping is read from the cache; with an id
\* from it s.Get follows, else the delegate's lookup
CachedGetByKey(p) ==
    /\ creq[p].cpc = "idle"
    /\ \E c \in KeyCalls : \E got \in CacheGets(lookupKey(c)) :
         /\ creq' = [creq EXCEPT ![p] =
                       IF ~got.err /\ got.entry.hit /\ got.entry.val # ""
                       THEN [@ EXCEPT !.op = c.op, !.args = c.args, !.cpc = "byid",
                                      !.id = got.entry.val]
                       ELSE [@ EXCEPT !.op = c.op, !.args = c.args, !.cpc = "readkey",
                                      !.cacheFailed = IF got.err THEN 1 ELSE 0]]
         /\ cacheErrors' = cacheErrors + (IF got.err THEN 1 ELSE 0)
    /\ UNCHANGED <<users, products, orders, req, published, cache>>

\* s.Get(ctx, id) with the id of the mapping: a hit is returned
CachedGetOfKey(p) ==
    /\ creq[p].cpc = "byid"
    /\ \E got \in CacheGets(entryKey(creq[p], creq[p].id)) :
         /\ creq' = [creq EXCEPT ![p] =
                       IF ~got.err /\ got.entry.hit
                       THEN [@ EXCEPT !.cpc = "done", !.ret = got.entry.val]
                       ELSE [@ EXCEPT !.cpc = "readid",
                                      !.cacheFailed = @ + (IF got.err THEN 1 ELSE 0)]]
         /\ cacheErrors' = cacheErrors + (IF got.err THEN 1 ELSE 0)
    /\ UNCHANGED <<users, products, orders, req, published, cache>>

\* the delegate is asked, by id after s.Get missed and by name or email
\* after the mapping missed; what it found is cached
CachedKeyRead(p) ==
    /\ creq[p].cpc \in {"readid", "readkey"}
    /\ \E result \in IF creq[p].cpc = "readid" THEN {delegateGetOfKey(creq[p])}
                     ELSE delegateGetByKey(creq[p]) :
         creq' = [creq EXCEPT ![p] =
                    [@ EXCEPT !.reads = @ + 1, !.ret = result,
                              !.cpc = CASE result = NoAgg -> "done"
                                        [] creq[p].cpc = "readid" -> "idset"
                                        [] OTHER -> "keyset"]]
    /\ UNCHANGED <<users, products, orders, req, published, cache, cacheErrors>>

\* cacheProduct, cacheUser for what the delegate found, and after the lookup
\* by name or email the mapping is set once more
CacheFound(p) ==
    /\ creq[p].cpc \in {"idset", "idsetkey", "keyset", "keysetkey", "keysetagain"}
    /\ LET r == creq[p]
       IN  CASE r.cpc \in {"idset", "keyset"} ->
                  /\ CacheCall(CacheSet(cache, entryKey(r, r.ret.ID), Serialized(r.ret)))
                  /\ creq' = [creq EXCEPT ![p] =
                                CacheWritten(r, IF r.cpc = "idset" THEN "idsetkey"
                                                ELSE "keysetkey")]
             [] r.cpc \in {"idsetkey", "keysetkey"} ->
                  /\ CacheCall(CacheSet(cache, mappingKey(r), r.ret.ID))
                  /\ creq' = [creq EXCEPT ![p] =
                                CacheWritten(r, IF r.cpc = "idsetkey" THEN "done"
                                                ELSE "keysetagain")]
             [] OTHER ->
                  /\ CacheCall(CacheSet(cache, lookupKey(r), r.ret.ID))
                  /\ creq' = [creq EXCEPT ![p] = CacheWritten(r, "done")]
    /\ UNCHANGED <<users, products, orders, req, published>>

\* what List of the delegate returns: the rows that are not deleted
delegateList(op) ==
    IF op = "Product.List"
    THEN [items |-> ProductRepoList(products), total |-> Cardinality(ProductRepoList(products))]
    ELSE [items |-> UserRepoList(users), total |-> Cardinality(UserRepoList(users))]

\* List: s.delegate.List with the arguments of the call
CachedList(p) ==
    /\ creq[p].cpc = "idle"
    /\ \E op \in {"Product.List", "User.List"}, limit \in {1, DefaultLimit} :
         creq' = [creq EXCEPT ![p] =
                    [@ EXCEPT !.op = op, !.args = [NoArgs EXCEPT !.limit = limit],
                              !.cpc = "done", !.reads = 1, !.ret = delegateList(op)]]
    /\ UNCHANGED <<users, products, orders, req, published, cache, cacheErrors>>

\* a request calls the decorator when no other call is running
OneAtATime ==
    \A p \in Procs :
        creq[p].cpc = "idle" /\ creq'[p].cpc # "idle"
            => \A q \in Procs \ {p} : creq[q].cpc \in {"idle", "done"}

\* Update and Delete: currentProduct, _ := s.delegate.Get(ctx, id) when the
\* store fails the read of an aggregate it holds: the error is dropped and
\* current is nil
CachedCurrentFailed(p) ==
    /\ creq[p].cpc = "idle"
    /\ p \in Writers
    /\ \E c \in WriteCalls :
         /\ delegateGet(c.op, c.id) # NoAgg
         /\ creq' = [creq EXCEPT ![p] =
                       [@ EXCEPT !.cpc = "call", !.op = c.op, !.id = c.id,
                                 !.args = c.args, !.current = NoAgg]]
    /\ UNCHANGED <<users, products, orders, req, published, cache, cacheErrors>>

\* the product p1 has the name Widget or Gadget, and the cache is empty or
\* holds what earlier Gets of p1 and u1 put into it
InitSequential ==
    /\ users = UsersInit
    /\ orders = OrdersInit
    /\ \E n \in {"Widget", "Gadget"} :
         products = [id \in ProductIDs |->
                       CASE id = "p1" -> ProductDoc("p1", n, 4, 1, FALSE)
                         [] id = "p2" -> ProductDoc("p2", "Old", 3, 0, TRUE)
                         [] OTHER -> NoRow]
    /\ req = [p \in Procs |-> IdleReq]
    /\ published = <<>>
    /\ creq = [p \in Procs |-> IdleCReq]
    /\ cacheErrors = 0
    /\ bus = NoBus
    /\ audit = NoAudit
    /\ \/ cache = EmptyCache
       \/ cache = CacheSet(CacheSet(CacheSet(CacheSet(EmptyCache,
                        productCacheKey("p1"), ProductRepoGetByID(products, "p1")),
                        nameCacheKey(products["p1"].Name), "p1"),
                        userCacheKey("u1"), UserRepoGetByID(users, "u1")),
                        emailCacheKey(EmailAB), "u1")

NextSequential ==
    /\ \/ NextCached
       \/ /\ \E p \in Procs : \/ CachedCurrentFailed(p)
                              \/ CachedGetByKey(p)
                              \/ CachedGetOfKey(p)
                              \/ CachedKeyRead(p)
                              \/ CacheFound(p)
                              \/ CachedList(p)
          /\ UNCHANGED <<bus, audit>>
    /\ OneAtATime

SpecSequential == InitSequential /\ [][NextSequential]_vars

\* the read before request p's Update or Delete failed, and the delegate's
\* call succeeded
LostCurrent(p) ==
    /\ creq[p].op \in {"Product.Update", "Product.Delete", "User.Update", "User.Delete"}
    /\ creq[p].cpc \in {"inv", "invkey", "set", "setkey", "done"}
    /\ creq[p].err = nil
    /\ creq[p].current = NoAgg

\* request p returns from the decorator in this step
Returns(p) == creq[p].cpc # "done" /\ creq'[p].cpc = "done"

\* C21: calls made through the decorator one after the other return what the
\* service returns for them.  The decorator hands every write to the service,
\* so the store is the one the same calls made on the service leave: a write
\* returns what the delegate returned, a Get, GetByName or GetByEmail what
\* the service finds in the store, and List what the delegate's List gives,
\* with nothing read from or written to the cache
C21_DecoratorTransparent ==
    [][\A p \in Procs :
          Returns(p) =>
            CASE creq'[p].op \in CachedWriteOps ->
                   creq'[p].err = req'[p].err
                     /\ (req'[p].err = nil => creq'[p].ret = req'[p].ret)
              [] creq'[p].op \in GetOps ->
                   creq'[p].err = nil
                     /\ creq'[p].ret = delegateGet(creq'[p].op, creq'[p].id)
              [] creq'[p].op \in {"Product.GetByName", "User.GetByEmail"} ->
                   creq'[p].err = nil /\ creq'[p].ret \in delegateGetByKey(creq'[p])
              [] OTHER ->
                   /\ creq'[p].ret = delegateList(creq'[p].op)
                   /\ creq'[p].reads = 1
                   /\ cache' = cache]_vars

\* C21 for the runs in which no cache call and no read before an Update or
\* a Delete has failed
C21_TransparentWhileCacheWorks ==
    [][(cacheErrors' = 0 /\ \A q \in Procs : ~LostCurrent(q)') =>
        \A p \in Procs :
          Returns(p) =>
            CASE creq'[p].op \in CachedWriteOps ->
                   creq'[p].err = req'[p].err
                     /\ (req'[p].err = nil => creq'[p].ret = req'[p].ret)
              [] creq'[p].op \in GetOps ->
                   creq'[p].err = nil
                     /\ creq'[p].ret = delegateGet(creq'[p].op, creq'[p].id)
              [] creq'[p].op \in {"Product.GetByName", "User.GetByEmail"} ->
                   creq'[p].err = nil /\ creq'[p].ret \in delegateGetByKey(creq'[p])
              [] OTHER ->
                   /\ creq'[p].ret = delegateList(creq'[p].op)
                   /\ creq'[p].reads = 1
                   /\ cache' = cache]_vars

\* C31: the stored stock of a product changes only by the write of an
\* UpdateStock, and then by its delta: Update never changes it, so the final
\* stock is the initial stock plus the deltas applied, in any interleaving
C31_UpdateKeepsStock ==
    [][\A id \in ProductIDs :
          (products[id].exists /\ products'[id].Stock # products[id].Stock)
          => \E p \in Procs :
                /\ req[p].pc = "persist"
                /\ req[p].op = "Product.UpdateStock"
                /\ req[p].id = id
                /\ req'[p].werr = nil
                /\ products'[id].Stock = products[id].Stock + req[p].args.quantity]_vars

\* a UserService.Delete(id) has returned nil
UserDeleteWritten(id) ==
    \E p \in Procs :
        /\ req[p].op = "User.Delete"
        /\ req[p].id = id
        /\ DeleteSucceeded(req[p])

\* C32: a user deleted by UserService.Delete keeps the deletion marker in
\* every later state and Get(id) keeps returning nil, whatever Update calls
\* run beside the Delete
C32_UserDeletionPermanent ==
    [][\A id \in UserIDs :
          (UserDeleteWritten(id) /\ users[id].exists /\ users[id].Deleted)
          => /\ users'[id].exists
             /\ users'[id].Deleted
             /\ UserRepoGetByID(users', id) = NoAgg]_vars

\* the key a GetByName or GetByEmail was called with
KeyOf(r) == IF r.op = "Product.GetByName" THEN r.args.name ELSE r.args.email

\* the key the returned aggregate has
KeyIn(r) == IF r.op = "Product.GetByName" THEN r.ret.Name ELSE r.ret.Email

\* C33: while no cache call fails, a GetByName(n) or GetByEmail(e) made
\* through the decorator, the calls running one after the other, returns nil
\* or an aggregate that is not deleted and has the name n or the email e
C33_LookupMatchesKey ==
    [][cacheErrors' = 0 =>
        \A p \in Procs :
          (Returns(p) /\ creq'[p].op \in {"Product.GetByName", "User.GetByEmail"})
            => \/ creq'[p].ret = NoAgg
               \/ /\ ~creq'[p].ret.Deleted
                  /\ KeyIn(creq'[p]) = KeyOf(creq'[p])]_vars

\* no stored user that is not deleted has the ID
NoSuchUser(userID) ==
    \/ userID \notin UserIDs
    \/ ~users[userID].exists
    \/ users[userID].Deleted

\* the event a Create of request r is to publish
ExpectedCreatedEvent(r) ==
    NewBaseEvent("order.created", r.agg.ID,
        OrderCreatedEvent(r.args.userID, Len(r.args.items), SumItems(r.args.items)))

\* C34: OrderService.Create for a user ID that names no stored, non-deleted
\* user returns ErrUserNotFound at once, writes nothing and publishes
\* nothing; the order a Create stores is pending and belongs to the user
\* that was found, and a Create returns nil only after it has handed the
\* bus exactly one order.created event with the number of items and the
\* total of price times quantity
C34_CreateNeedsUser ==
    [][\A p \in Procs :
          req'[p].op = "Order.Create" =>
            /\ (req[p].pc = "idle" /\ NoSuchUser(req'[p].args.userID))
                   => /\ req'[p].pc = "done"
                      /\ req'[p].err = ErrUserNotFound
                      /\ req'[p].writes = 0
                      /\ orders' = orders
                      /\ PublishedBy(p)' = <<>>
            /\ (req[p].pc = "persist" /\ req'[p].pc = "publish")
                   => /\ ~NoSuchUser(req[p].args.userID)
                      /\ orders'[req[p].agg.ID].exists
                      /\ orders'[req[p].agg.ID].Status = OrderStatusPending
                      /\ orders'[req[p].agg.ID].UserID = req[p].args.userID
                      /\ \A id \in OrderIDs \ {req[p].agg.ID} : orders'[id] = orders[id]
            /\ (req'[p].pc = "done" /\ req'[p].err = nil)
                   => /\ req'[p].writes = 1
                      /\ Len(PublishedBy(p)') = 1
                      /\ PublishedBy(p)'[1].evt = ExpectedCreatedEvent(req'[p])
            /\ (req'[p].pc = "done" /\ req'[p].err # nil)
                   => /\ PublishedBy(p)' = <<>>
                      /\ ~orders'[NewID(p)].exists]_vars

C34_Witness ==
    \E p, q \in Procs :
        /\ req[p].op = "Order.Create"
        /\ req[p].pc = "done"
        /\ req[p].err = nil
        /\ req[p].args.userID = "u1"
        /\ Len(req[p].args.items) = 2
        /\ orders[NewID(p)].Status = OrderStatusPending
        /\ orders[NewID(p)].Total = 7
        /\ PublishedBy(p)[1].evt.Payload.TotalValue = 7
        /\ PublishedBy(p)[1].evt.Payload.ItemCount = 2
        /\ req[q].op = "Order.Create"
        /\ req[q].args.userID = "u2"
        /\ req[q].err = ErrUserNotFound
        /\ ~orders[NewID(q)].exists

(***************************************************************************)
(* The audit consumer: the messages of one partition of the audit topic,   *)
(* the consumer group session that reads them and the audit_logs table.    *)
(* audit.log is the partition, audit.next the offset of the next message   *)
(* of the claim, audit.marked the offset the session has marked (the       *)
(* offset after the last message marked as consumed), audit.committed the  *)
(* offset the group has committed, audit.handled the HandleMessage calls   *)
(* made with their results, audit.table the items of the table and         *)
(* audit.now the clock read by time.Now().                                 *)
(***************************************************************************)
MaxLog == 2

MaxSessions == 2

\* a value that is not JSON
Malformed == [json |-> FALSE]

\* the value KafkaAuditHandler sends for an event
AuditValue(id, action, timestamp) ==
    [json |-> TRUE, ID |-> id, EntityType |-> "order", EntityID |-> "o1",
     Action |-> action, Timestamp |-> timestamp]

\* "t1" is an RFC3339 timestamp, "soon" is not; the value without an ID is
\* a JSON object that has no "id"
AuditValues ==
    {Malformed, AuditValue("e1", "created", "t1"), AuditValue("e2", "cancelled", "soon"),
     AuditValue("", "created", "t1")}

SyntaxError == [Code |-> "json", HTTPStatus |-> 0]

KeyError == [Code |-> "dynamodb", HTTPStatus |-> 0]

\* json.Unmarshal(value, &msg)
Unmarshal(value) ==
    IF value.json THEN Result(value, nil) ELSE Result(NoAgg, SyntaxError)

\* time.Parse(time.RFC3339, msg.Timestamp), and time.Now() if that fails;
\* "t1" is the instant 0, before the clock's first reading
ParseTimestamp(timestamp, now) == IF timestamp = "t1" THEN 0 ELSE now

\* PutItem that adds the item and replaces none
PutItemAdded(table, item, fails) ==
    IF item.id = "" THEN [table |-> table, err |-> KeyError]
    ELSE IF fails THEN [table |-> table, err |-> StoreError]
    ELSE [table |-> table \cup {item}, err |-> nil]

\* PutItem on the table whose hash key is id: the item replaces the item of
\* the same id; an empty key is refused
PutItem(table, item, fails) ==
    IF item.id = "" THEN [table |-> table, err |-> KeyError]
    ELSE IF fails THEN [table |-> table, err |-> StoreError]
    ELSE [table |-> {i \in table : i.id # item.id} \cup {item}, err |-> nil]

\* AuditRepository.Create
AuditRepositoryCreate(table, auditLog, fails) ==
    PutItem(table,
            [id |-> auditLog.ID, entity_type |-> auditLog.EntityType,
             entity_id |-> auditLog.EntityID, action |-> auditLog.Action,
             timestamp |-> auditLog.Timestamp],
            fails)

\* AuditConsumerHandler.HandleMessage: the table after the call and the error
HandleMessage(table, value, now, fails) ==
    LET parsed == Unmarshal(value)
        msg == parsed.agg
    IN  IF parsed.err # nil THEN [table |-> table, err |-> parsed.err]
        ELSE AuditRepositoryCreate(table,
                 [ID |-> msg.ID, EntityType |-> msg.EntityType, EntityID |-> msg.EntityID,
                  Action |-> msg.Action, Timestamp |-> ParseTimestamp(msg.Timestamp, now)],
                 fails)

\* session.MarkMessage(message, ""): the offset after the message is marked
\* unless a later one is
MarkMessage(marked, offset) == IF offset + 1 > marked THEN offset + 1 ELSE marked

\* the partition holds its messages, a session has begun at offset 0
InitConsumer ==
    /\ users = UsersInit
    /\ products = ProductsInit
    /\ orders = [id \in OrderIDs |-> NoRow]
    /\ req = [p \in Procs |-> IdleReq]
    /\ published = <<>>
    /\ cache = EmptyCache
    /\ creq = [p \in {} |-> IdleCReq]
    /\ cacheErrors = 0
    /\ bus = NoBus
    /\ \E log \in [1..MaxLog -> AuditValues] :
         audit = [NoAudit EXCEPT !.log = log, !.sessions = 1, !.now = 1]

\* ConsumeClaim: one pass of the loop for the next message of the claim
ConsumeClaim ==
    /\ audit.next < Len(audit.log)
    /\ \E fails \in BOOLEAN :
         LET done == HandleMessage(audit.table, audit.log[audit.next + 1], audit.now, fails)
         IN  audit' = [audit EXCEPT
                         !.table = done.table,
                         !.handled = Append(@, [offset |-> audit.next, err |-> done.err]),
                         !.marked = IF done.err = nil THEN MarkMessage(@, audit.next) ELSE @,
                         !.next = @ + 1,
                         !.now = @ + 1]
    /\ UNCHANGED <<users, products, orders, req, published, cvars, bus>>

\* the marked offset is committed for the group
CommitOffsets ==
    /\ audit.committed # audit.marked
    /\ audit' = [audit EXCEPT !.committed = audit.marked]
    /\ UNCHANGED <<users, products, orders, req, published, cvars, bus>>

\* Start: Consume returns and is called again; the new session claims the
\* partition from the committed offset
Consume ==
    /\ audit.sessions < MaxSessions
    /\ audit' = [audit EXCEPT !.sessions = @ + 1, !.next = audit.committed,
                              !.marked = audit.committed]
    /\ UNCHANGED <<users, products, orders, req, published, cvars, bus>>

NextConsumer == ConsumeClaim \/ CommitOffsets \/ Consume

SpecConsumer == InitConsumer /\ [][NextConsumer]_vars

\* the items stored under an ID
ItemsOf(table, id) == {i \in table : i.id = id}

\* C35: HandleMessage on a value that is not JSON returns an error; a call
\* that returns an error leaves the table as it was; a call that returns nil
\* leaves exactly one item under the ID of the message, with the entity
\* type, entity ID and action of the message, whether or not the message
\* was handled before, and leaves the items of the other IDs as they were
C35_OneRecordPerMessage ==
    [][audit'.handled # audit.handled =>
         LET value == audit.log[audit.next + 1]
             err == audit'.handled[Len(audit'.handled)].err
         IN  /\ (~value.json => err # nil)
             /\ (err # nil => audit'.table = audit.table)
             /\ (err = nil =>
                   /\ Cardinality(ItemsOf(audit'.table, value.ID)) = 1
                   /\ \A i \in ItemsOf(audit'.table, value.ID) :
                        /\ i.entity_type = value.EntityType
                        /\ i.entity_id = value.EntityID
                        /\ i.action = value.Action
                   /\ audit'.table \ ItemsOf(audit'.table, value.ID)
                        = audit.table \ ItemsOf(audit.table, value.ID))]_vars

\* the message e2, whose timestamp does not parse, was stored twice, and
\* the value that is not JSON was refused
C35_Witness ==
    /\ audit.log = <<AuditValue("e2", "cancelled", "soon"), Malformed>>
    /\ \E j, k \in 1..Len(audit.handled) :
         /\ j < k
         /\ audit.handled[j] = [offset |-> 0, err |-> nil]
         /\ audit.handled[k] = [offset |-> 0, err |-> nil]
    /\ \E j \in 1..Len(audit.handled) :
         audit.handled[j] = [offset |-> 1, err |-> SyntaxError]
    /\ Cardinality(audit.table) = 1
    /\ \E i \in audit.table : i.id = "e2" /\ i.action = "cancelled" /\ i.timestamp > 0

\* the message at the offset was handled with the result nil
HandledOK(offset) ==
    \E j \in 1..Len(audit.handled) : audit.handled[j] = [offset |-> offset, err |-> nil]

\* C36: every message below the marked offset and below the committed
\* offset, which no later session reads again, was handled by a
\* HandleMessage call that returned nil
C36_ConsumedOnlyIfHandled ==
    \A offset \in 0..(Len(audit.log) - 1) :
        (offset < audit.marked \/ offset < audit.committed) => HandledOK(offset)

====
